---- MODULE Spec2Model ----
(***************************************************************************)
(* Water tank pump controller (WaterTankController.ino): the pump control  *)
(* state machine, the level sensor reader, the MQTT adapter and the web    *)
(* /pump handler, driven by the cooperative control loop of loop().        *)
(*                                                                         *)
(* Time is counted in milliseconds.  millis() is an unsigned counter that  *)
(* wraps; the model keeps the wrap but narrows the counter to MillisMod    *)
(* values so that a wrap happens within the explored uptime.               *)
(***************************************************************************)
EXTENDS Integers, Sequences, FiniteSets, TLC

VARIABLES
    pc,          \* position of the control loop: the phase of loop() that runs next
    uptime,      \* milliseconds since boot (unwrapped)
    synced,      \* the wall clock has been set by NTP
    settings,    \* Settings: the "messaging is configured" signal
    sensor,      \* WaterLevelSensor fields
    pump,        \* PumpController fields and the level of RELAY_PIN
    mqtt,        \* MqttHandler fields and the state of the PubSubClient
    outbox,      \* what the phase that ran last handed to the broker, in order
    rssi,        \* WiFi.RSSI() as read by publishState in the phase that ran last, 0 if
                 \* it published no state
    inbox,       \* the packet the phase that ran last read from the broker, NoMessage if none
    attempts,    \* uptime at which each connection attempt since boot returned, in order
    beatAt,      \* uptime of the latest periodic state update since boot, 0 if none
    debounce,    \* one call of WaterLevelSensor::readSensor followed read by read: the
                 \* levels of the pin, the loop counter, activeCount, the returned value
    web,         \* HTTP status answered by webServer.loop() in this pass, 0 if none
    pass         \* what this pass of loop() did so far: calls of PumpController::loop,
                 \* changes of pump.pumpState, calls of WaterLevelSensor::update,
                 \* changes of a debounced sensor value, calls of the command callback

vars == <<pc, uptime, synced, settings, sensor, pump, mqtt, outbox, rssi, inbox, attempts, beatAt, debounce, web, pass>>

(***************************************************************************)
(* Bounds of the exploration                                               *)
(***************************************************************************)
\* the explored uptime, in milliseconds
MaxUptime == 12000
\* the first pass time after a connection attempt at which the reconnect
\* throttle has expired, on the time grid of LoopDelays
RetryHorizon == 6000
\* number of values of the millis() counter before it wraps (2^32 on the device);
\* the wrap falls between the third and the fourth pass of the shortest run
MillisMod == 10000

\* time one pass of loop() may take (delay(10), debounce reads, blocking I/O)
LoopDelays == {3000, 6000}
\* time a blocking broker connection attempt may take
ConnectDelays == {0, 3000}
\* the five consecutive digitalRead() levels one debounced read may see
QuietReads == <<FALSE, FALSE, FALSE, FALSE, FALSE>>
PinReads == { QuietReads, <<TRUE, TRUE, TRUE, TRUE, TRUE>>,
              <<TRUE, FALSE, TRUE, FALSE, FALSE>>, <<FALSE, TRUE, TRUE, FALSE, TRUE>> }
\* wall-clock seconds at boot once NTP has answered
EpochBase == 1700000000
\* WiFi.RSSI() readings, in dBm
QuietRssi == -60
RssiValues == {-110, QuietRssi}

(***************************************************************************)
(* Program constants                                                       *)
(***************************************************************************)
\* "currentTime > 1000000000": the wall clock is synchronized
EpochThreshold == 1000000000
\* reconnect throttle of MqttHandler::loop
ReconnectInterval == 5000
\* _statusUpdateInterval
statusUpdateInterval == 5000
\* readSensor: number of reads and the majority
DebounceReads == 5
DebounceMajority == 3

FIRMWARE_VERSION == "2.0.6"
MQTT_STATE_TOPIC == "watertank/water_tank_controller"
MQTT_PUMP_TOPIC == "watertank/water_tank_controller/pump"
MQTT_COMMAND_TOPIC == "watertank/water_tank_controller/set"
OTHER_TOPIC == "watertank/other_device/set"

(***************************************************************************)
(* Clocks                                                                  *)
(***************************************************************************)
\* millis(): the wrapping monotonic counter
millis(up) == up % MillisMod

\* unsigned subtraction a - b on the millis() counter
USub(a, b) == (a - b + MillisMod) % MillisMod

\* time(nullptr): seconds since boot until NTP has set the clock, epoch seconds after
timeNow(up, isSynced) == IF isSynced THEN EpochBase + (up \div 1000) ELSE up \div 1000

(***************************************************************************)
(* WaterLevelSensor                                                        *)
(***************************************************************************)
RECURSIVE activeCount(_, _)
activeCount(reads, i) ==
    IF i > DebounceReads THEN 0
    ELSE (IF reads[i] THEN 1 ELSE 0) + activeCount(reads, i + 1)

\* readSensor that reports active as soon as one read is active
readSensor_anyActive(reads) == activeCount(reads, 1) >= 1

\* WaterLevelSensor::readSensor: majority vote over the reads
readSensor(reads) == activeCount(reads, 1) >= DebounceMajority

\* readSensor followed read by read: entry, with the levels the pin will show
readSensorEntry(reads) ==
    [ reads |-> reads, i |-> 0, activeCount |-> 0, returned |-> FALSE, result |-> FALSE ]

\* no call of readSensor is being followed
NoCall == readSensorEntry(QuietReads)

\* update that resamples without storing the previous values
update_keepsPrevious(s, lowReads, highReads) ==
    [ s EXCEPT !.lowSensorState = readSensor(lowReads),
               !.highSensorState = readSensor(highReads) ]

\* WaterLevelSensor::update
update(s, lowReads, highReads) ==
    [ lowSensorState      |-> readSensor(lowReads),
      highSensorState     |-> readSensor(highReads),
      lastLowSensorState  |-> s.lowSensorState,
      lastHighSensorState |-> s.highSensorState ]

\* WaterLevelSensor::begin (after the constructor)
sensorBegin(lowReads, highReads) ==
    LET s0 == [ lowSensorState |-> FALSE, highSensorState |-> FALSE,
                lastLowSensorState |-> FALSE, lastHighSensorState |-> FALSE ]
        s1 == update(s0, lowReads, highReads)
    IN  [ s1 EXCEPT !.lastLowSensorState = s1.lowSensorState,
                    !.lastHighSensorState = s1.highSensorState ]

\* hasLowSensorChanged that reports a rising value only
hasLowSensorChanged_risingOnly(s) == s.lowSensorState /\ ~s.lastLowSensorState

\* WaterLevelSensor::hasLowSensorChanged, hasHighSensorChanged
hasLowSensorChanged(s) == s.lowSensorState # s.lastLowSensorState
hasHighSensorChanged(s) == s.highSensorState # s.lastHighSensorState

\* WaterLevelSensor::resetChangeFlags
resetChangeFlags(s) ==
    [ s EXCEPT !.lastLowSensorState = s.lowSensorState,
               !.lastHighSensorState = s.highSensorState ]

(***************************************************************************)
(* PumpController                                                          *)
(***************************************************************************)
\* PumpController::PumpController followed by begin(): relay driven LOW
pumpBegin ==
    [ overrideMode     |-> FALSE,
      overrideState    |-> FALSE,
      pumpState        |-> FALSE,
      lastPumpState    |-> FALSE,
      pumpLastOnAt     |-> 0,
      pumpLastOffAt    |-> 0,
      pumpLastOnEpoch  |-> 0,
      pumpLastOffEpoch |-> 0,
      lastPumpDuration |-> 0,
      relayPin         |-> FALSE ]

\* setPumpState that energises the relay on every change and never releases it
setPumpState_relayStuck(p, state, currentTime, now) ==
    IF p.pumpState # state
    THEN [ p EXCEPT !.lastPumpState = p.pumpState,
                    !.pumpState = state,
                    !.relayPin = TRUE,
                    !.pumpLastOnAt = IF state THEN now ELSE @,
                    !.pumpLastOffAt = IF state THEN @ ELSE now ]
    ELSE p

\* setPumpState that stores the run duration in seconds
setPumpState_seconds(p, state, currentTime, now) ==
    IF p.pumpState # state
    THEN LET switched == [ p EXCEPT !.lastPumpState = p.pumpState,
                                    !.pumpState = state,
                                    !.relayPin = state ]
         IN  IF state
             THEN [ switched EXCEPT
                      !.pumpLastOnAt = now,
                      !.pumpLastOnEpoch = IF currentTime > EpochThreshold THEN currentTime ELSE @ ]
             ELSE LET off == [ switched EXCEPT
                                 !.pumpLastOffAt = now,
                                 !.pumpLastOffEpoch = IF currentTime > EpochThreshold THEN currentTime ELSE @ ]
                  IN  IF off.pumpLastOnAt > 0 /\ off.pumpLastOffAt > off.pumpLastOnAt
                      THEN [ off EXCEPT !.lastPumpDuration =
                                           (off.pumpLastOffAt - off.pumpLastOnAt) \div 1000 ]
                      ELSE off
    ELSE p

\* setPumpState that drives the relay and stamps the time on every call,
\* whether or not the state changes
setPumpState_restamps(p, state, currentTime, now) ==
    LET switched == [ p EXCEPT !.lastPumpState = p.pumpState,
                               !.pumpState = state,
                               !.relayPin = state ]
    IN  IF state
        THEN [ switched EXCEPT
                 !.pumpLastOnAt = now,
                 !.pumpLastOnEpoch = IF currentTime > EpochThreshold THEN currentTime ELSE @ ]
        ELSE LET off == [ switched EXCEPT
                            !.pumpLastOffAt = now,
                            !.pumpLastOffEpoch = IF currentTime > EpochThreshold THEN currentTime ELSE @ ]
             IN  IF off.pumpLastOnAt > 0 /\ off.pumpLastOffAt > off.pumpLastOnAt
                 THEN [ off EXCEPT !.lastPumpDuration = off.pumpLastOffAt - off.pumpLastOnAt ]
                 ELSE off

\* setPumpState that writes the ON time on switching OFF and the OFF time on
\* switching ON
setPumpState_swappedStamps(p, state, currentTime, now) ==
    IF p.pumpState # state
    THEN LET switched == [ p EXCEPT !.lastPumpState = p.pumpState,
                                    !.pumpState = state,
                                    !.relayPin = state ]
         IN  IF state
             THEN [ switched EXCEPT
                      !.pumpLastOffAt = now,
                      !.pumpLastOnEpoch = IF currentTime > EpochThreshold THEN currentTime ELSE @ ]
             ELSE [ switched EXCEPT
                      !.pumpLastOnAt = now,
                      !.pumpLastOffEpoch = IF currentTime > EpochThreshold THEN currentTime ELSE @ ]
    ELSE p

\* PumpController::setPumpState
setPumpState(p, state, currentTime, now) ==
    IF p.pumpState # state
    THEN LET switched == [ p EXCEPT !.lastPumpState = p.pumpState,
                                    !.pumpState = state,
                                    !.relayPin = state ]
         IN  IF state
             THEN [ switched EXCEPT
                      !.pumpLastOnAt = now,
                      !.pumpLastOnEpoch = IF currentTime > EpochThreshold THEN currentTime ELSE @ ]
             ELSE LET off == [ switched EXCEPT
                                 !.pumpLastOffAt = now,
                                 !.pumpLastOffEpoch = IF currentTime > EpochThreshold THEN currentTime ELSE @ ]
                  IN  IF off.pumpLastOnAt > 0 /\ off.pumpLastOffAt > off.pumpLastOnAt
                      THEN [ off EXCEPT !.lastPumpDuration = off.pumpLastOffAt - off.pumpLastOnAt ]
                      ELSE off
    ELSE p

\* handleAutomaticControl whose first test forgets the high sensor
handleAutomaticControl_lowOnly(p, s, lowReads, highReads, currentTime, now) ==
    LET s2 == update(s, lowReads, highReads)
    IN  [ sensor  |-> s2,
          samples |-> 1,
          pump    |-> IF ~s2.lowSensorState
                      THEN setPumpState(p, TRUE, currentTime, now)
                      ELSE IF s2.highSensorState
                           THEN setPumpState(p, FALSE, currentTime, now)
                           ELSE p ]

\* handleAutomaticControl with the polarity of the low sensor inverted
handleAutomaticControl_polarity(p, s, lowReads, highReads, currentTime, now) ==
    LET s2 == update(s, lowReads, highReads)
    IN  [ sensor  |-> s2,
          samples |-> 1,
          pump    |-> IF s2.lowSensorState /\ ~s2.highSensorState
                      THEN setPumpState(p, TRUE, currentTime, now)
                      ELSE IF s2.highSensorState
                           THEN setPumpState(p, FALSE, currentTime, now)
                           ELSE p ]

\* handleAutomaticControl without the hysteresis band: anything but "empty" stops the pump
handleAutomaticControl_noBand(p, s, lowReads, highReads, currentTime, now) ==
    LET s2 == update(s, lowReads, highReads)
    IN  [ sensor  |-> s2,
          samples |-> 1,
          pump    |-> IF ~s2.lowSensorState /\ ~s2.highSensorState
                      THEN setPumpState(p, TRUE, currentTime, now)
                      ELSE setPumpState(p, FALSE, currentTime, now) ]

\* PumpController::handleAutomaticControl: resample, then decide
handleAutomaticControl(p, s, lowReads, highReads, currentTime, now) ==
    LET s2 == update(s, lowReads, highReads)
        lowWater == s2.lowSensorState
        highWater == s2.highSensorState
    IN  [ sensor  |-> s2,
          samples |-> 1,
          pump    |-> IF ~lowWater /\ ~highWater
                      THEN setPumpState(p, TRUE, currentTime, now)
                      ELSE IF highWater
                           THEN setPumpState(p, FALSE, currentTime, now)
                           ELSE p ]

\* loop() in which a high sensor reading outranks the override
pumpLoop_safetyFirst(p, s, lowReads, highReads, currentTime, now) ==
    IF p.overrideMode /\ ~s.highSensorState
    THEN [ sensor  |-> s,
           samples |-> 0,
           pump    |-> IF p.pumpState # p.overrideState
                       THEN setPumpState(p, p.overrideState, currentTime, now)
                       ELSE p ]
    ELSE handleAutomaticControl(p, s, lowReads, highReads, currentTime, now)

\* loop() that keeps following a target ON after the override was disabled
pumpLoop_staleTarget(p, s, lowReads, highReads, currentTime, now) ==
    IF p.overrideMode \/ p.overrideState
    THEN [ sensor  |-> s,
           samples |-> 0,
           pump    |-> IF p.pumpState # p.overrideState
                       THEN setPumpState(p, p.overrideState, currentTime, now)
                       ELSE p ]
    ELSE handleAutomaticControl(p, s, lowReads, highReads, currentTime, now)

\* loop() that treats the override as one-shot: back to automatic once the target is reached
pumpLoop_oneShot(p, s, lowReads, highReads, currentTime, now) ==
    IF p.overrideMode
    THEN [ sensor  |-> s,
           samples |-> 0,
           pump    |-> IF p.pumpState # p.overrideState
                       THEN setPumpState(p, p.overrideState, currentTime, now)
                       ELSE [ p EXCEPT !.overrideMode = FALSE ] ]
    ELSE handleAutomaticControl(p, s, lowReads, highReads, currentTime, now)

\* PumpController::loop
pumpLoop(p, s, lowReads, highReads, currentTime, now) ==
    IF p.overrideMode
    THEN [ sensor  |-> s,
           samples |-> 0,
           pump    |-> IF p.pumpState # p.overrideState
                       THEN setPumpState(p, p.overrideState, currentTime, now)
                       ELSE p ]
    ELSE handleAutomaticControl(p, s, lowReads, highReads, currentTime, now)

\* setOverrideMode that switches the pump at once instead of leaving it to loop()
setOverrideMode_immediate(p, enabled, state) ==
    [ p EXCEPT !.overrideMode = enabled,
               !.overrideState = state,
               !.lastPumpState = IF enabled /\ p.pumpState # state THEN p.pumpState ELSE @,
               !.pumpState = IF enabled THEN state ELSE @,
               !.relayPin = IF enabled THEN state ELSE @ ]

\* PumpController::setOverrideMode
setOverrideMode(p, enabled, state) ==
    [ p EXCEPT !.overrideMode = enabled, !.overrideState = state ]

\* PumpController::updateTimestamps: epochs recomputed from the counter times
updateTimestamps(p, currentTime, now) ==
    IF currentTime > EpochThreshold
    THEN [ p EXCEPT
             !.pumpLastOnEpoch = IF p.pumpLastOnAt > 0
                                 THEN currentTime - (USub(now, p.pumpLastOnAt) \div 1000) ELSE @,
             !.pumpLastOffEpoch = IF p.pumpLastOffAt > 0
                                  THEN currentTime - (USub(now, p.pumpLastOffAt) \div 1000) ELSE @ ]
    ELSE p

\* PumpController::hasPumpStateChanged
hasPumpStateChanged(p) == p.pumpState # p.lastPumpState

(***************************************************************************)
(* MqttHandler                                                             *)
(***************************************************************************)
\* Arduino map(), integer arithmetic
map(x, inMin, inMax, outMin, outMax) ==
    ((x - inMin) * (outMax - outMin)) \div (inMax - inMin) + outMin

\* Arduino constrain()
constrain(x, lo, hi) == IF x < lo THEN lo ELSE IF x > hi THEN hi ELSE x

\* link quality that maps the reading without clamping it
linkQuality_unclamped(rs) == map(rs, -100, -50, 0, 255)

\* link quality of publishState: RSSI clamped to [-100, -50] dBm, mapped to 0..255
linkQuality(rs) == map(constrain(rs, -100, -50), -100, -50, 0, 255)

\* MqttHandler::formatISO8601: days since the epoch, hour, minute, second
formatISO8601(t) == << t \div 86400, (t % 86400) \div 3600, (t % 3600) \div 60, t % 60 >>

Publish(topic, payload) == [ op |-> "publish", topic |-> topic, payload |-> payload ]
Subscribe(topic) == [ op |-> "subscribe", topic |-> topic, payload |-> << >> ]

\* stateDoc that reports the override target in every mode
stateDoc_alwaysTarget(s, p, rs) ==
    << <<"firmware_version", FIRMWARE_VERSION>>,
       <<"contact", s.lowSensorState>>,
       <<"water_leak", s.highSensorState>>,
       <<"control_mode", IF p.overrideMode THEN "manual" ELSE "automatic">>,
       <<"override_state", p.overrideState>>,
       <<"linkquality", linkQuality(rs)>> >>

\* stateDoc with the two sensors exchanged
stateDoc_swapped(s, p, rs) ==
    << <<"firmware_version", FIRMWARE_VERSION>>,
       <<"contact", s.highSensorState>>,
       <<"water_leak", s.lowSensorState>>,
       <<"control_mode", IF p.overrideMode THEN "manual" ELSE "automatic">> >>
    \o (IF p.overrideMode THEN << <<"override_state", p.overrideState>> >> ELSE << >>)
    \o << <<"linkquality", linkQuality(rs)>> >>

\* the JSON document of publishState, keys in insertion order
stateDoc(s, p, rs) ==
    << <<"firmware_version", FIRMWARE_VERSION>>,
       <<"contact", s.lowSensorState>>,
       <<"water_leak", s.highSensorState>>,
       <<"control_mode", IF p.overrideMode THEN "manual" ELSE "automatic">> >>
    \o (IF p.overrideMode THEN << <<"override_state", p.overrideState>> >> ELSE << >>)
    \o << <<"linkquality", linkQuality(rs)>> >>

\* the members publishState and publishPumpStatus assign a bool to
BoolKeys == {"contact", "water_leak", "override_state"}
\* the members they assign an integer to
NumberKeys == {"linkquality", "runtime_last_on", "runtime_last_off",
               "last_duration_seconds", "last_duration_ms"}

\* serializeJson: the members in insertion order, each as its key, the kind of
\* JSON token and the token: a bool becomes the literal true or false, an
\* integer a number, a char array a string
serializeJson(doc) ==
    [ i \in 1..Len(doc) |->
        IF doc[i][1] \in BoolKeys
        THEN << doc[i][1], "literal", IF doc[i][2] THEN "true" ELSE "false" >>
        ELSE IF doc[i][1] \in NumberKeys
             THEN << doc[i][1], "number", doc[i][2] >>
             ELSE << doc[i][1], "string", doc[i][2] >> ]

\* what a JSON parser reads back from the text
deserializeJson(text) ==
    [ i \in 1..Len(text) |->
        IF text[i][2] = "literal"
        THEN << text[i][1], text[i][3] = "true" >>
        ELSE << text[i][1], text[i][3] >> ]

\* MqttHandler::publishState (publishSensorStatus forwards to it)
publishState(connected, s, p, rs) ==
    IF ~connected THEN << >>
    ELSE << Publish(MQTT_STATE_TOPIC, stateDoc(s, p, rs)) >>

\* pumpDoc that stamps last_on/last_off whenever a transition was recorded,
\* whatever the stored epoch is
pumpDoc_unsyncedStamps(pumpState, lastOnTime, lastOffTime, lastOnEpoch, lastOffEpoch, lastDuration) ==
    << <<"state", IF pumpState THEN "ON" ELSE "OFF">> >>
    \o (IF lastOnTime > 0
        THEN << <<"last_on", formatISO8601(lastOnEpoch)>> >> ELSE << >>)
    \o (IF lastOffTime > 0
        THEN << <<"last_off", formatISO8601(lastOffEpoch)>> >> ELSE << >>)
    \o << <<"runtime_last_on", lastOnTime>>, <<"runtime_last_off", lastOffTime>> >>
    \o (IF lastDuration > 0
        THEN << <<"last_duration_seconds", lastDuration \div 1000>>,
                <<"last_duration_ms", lastDuration>> >>
        ELSE << >>)

\* pumpDoc that reports the duration even when none was measured
pumpDoc_alwaysDuration(pumpState, lastOnTime, lastOffTime, lastOnEpoch, lastOffEpoch, lastDuration) ==
    << <<"state", IF pumpState THEN "ON" ELSE "OFF">> >>
    \o (IF lastOnEpoch > EpochThreshold
        THEN << <<"last_on", formatISO8601(lastOnEpoch)>> >> ELSE << >>)
    \o (IF lastOffEpoch > EpochThreshold
        THEN << <<"last_off", formatISO8601(lastOffEpoch)>> >> ELSE << >>)
    \o << <<"runtime_last_on", lastOnTime>>, <<"runtime_last_off", lastOffTime>> >>
    \o << <<"last_duration_seconds", lastDuration \div 1000>>,
          <<"last_duration_ms", lastDuration>> >>

\* the JSON document of publishPumpStatus, keys in insertion order
pumpDoc(pumpState, lastOnTime, lastOffTime, lastOnEpoch, lastOffEpoch, lastDuration) ==
    << <<"state", IF pumpState THEN "ON" ELSE "OFF">> >>
    \o (IF lastOnEpoch > EpochThreshold
        THEN << <<"last_on", formatISO8601(lastOnEpoch)>> >> ELSE << >>)
    \o (IF lastOffEpoch > EpochThreshold
        THEN << <<"last_off", formatISO8601(lastOffEpoch)>> >> ELSE << >>)
    \o << <<"runtime_last_on", lastOnTime>>, <<"runtime_last_off", lastOffTime>> >>
    \o (IF lastDuration > 0
        THEN << <<"last_duration_seconds", lastDuration \div 1000>>,
                <<"last_duration_ms", lastDuration>> >>
        ELSE << >>)

\* publishPumpStatus that reports the state the pump had before it last changed
publishPumpStatus_staleState(connected, p) ==
    IF ~connected THEN << >>
    ELSE << Publish(MQTT_PUMP_TOPIC,
                    pumpDoc(p.lastPumpState, p.pumpLastOnAt, p.pumpLastOffAt,
                            p.pumpLastOnEpoch, p.pumpLastOffEpoch, p.lastPumpDuration)) >>

\* a state document is among what was handed to the broker
StatePublished(out) ==
    \E i \in 1..Len(out) : out[i].op = "publish" /\ out[i].topic = MQTT_STATE_TOPIC

\* MqttHandler::publishPumpStatus, called with the getters of the pump controller
publishPumpStatus(connected, p) ==
    IF ~connected THEN << >>
    ELSE << Publish(MQTT_PUMP_TOPIC,
                    pumpDoc(p.pumpState, p.pumpLastOnAt, p.pumpLastOffAt,
                            p.pumpLastOnEpoch, p.pumpLastOffEpoch, p.lastPumpDuration)) >>

\* the entities announced by publishDiscovery, in order
DiscoveryEntities ==
    << "binary_sensor/water_tank_controller_low_water",
       "binary_sensor/water_tank_controller_high_water",
       "binary_sensor/water_tank_controller_pump",
       "switch/water_tank_controller_control",
       "sensor/water_tank_controller_rssi",
       "sensor/water_tank_controller_duration",
       "sensor/water_tank_controller_firmware",
       "sensor/water_tank_controller_last_on",
       "sensor/water_tank_controller_last_off",
       "sensor/water_tank_controller_control_mode",
       "select/water_tank_controller_mode_select" >>

\* MqttHandler::publishDiscovery: one retained config payload per entity
publishDiscovery(connected) ==
    IF ~connected THEN << >>
    ELSE [ i \in 1..Len(DiscoveryEntities) |->
             Publish(DiscoveryEntities[i], << <<"sw_version", FIRMWARE_VERSION>> >>) ]

\* inbound messages the broker may deliver
StateTokens == {"absent", "ON", "OFF", "on"}
InboundMessages ==
    { m \in [ topic : {MQTT_COMMAND_TOPIC, OTHER_TOPIC}, parses : BOOLEAN,
              hasOverride : BOOLEAN, override : BOOLEAN, state : StateTokens ] :
        /\ ~m.parses => (~m.hasOverride /\ m.state = "absent")
        /\ ~m.hasOverride => (~m.override /\ m.state \in {"absent", "ON"})
        /\ m.topic = OTHER_TOPIC => (m.hasOverride /\ m.override /\ m.state = "ON") }
NoMessage == [ topic |-> "", parses |-> FALSE, hasOverride |-> FALSE,
               override |-> FALSE, state |-> "absent" ]

\* mqttCallback that takes a command from whatever topic it arrives on
mqttCallback_anyTopic(p, msg) ==
    IF ~msg.parses THEN [ pump |-> p, called |-> 0 ]
    ELSE IF msg.hasOverride
         THEN LET overrideMode == msg.override
                  overrideState == IF msg.state # "absent" THEN msg.state = "ON" ELSE FALSE
              IN  [ pump |-> setOverrideMode(p, overrideMode, overrideState), called |-> 1 ]
         ELSE [ pump |-> p, called |-> 0 ]

\* mqttCallback that keeps the previous override target when the command has
\* no "state" key
mqttCallback_keepsTarget(p, msg) ==
    IF ~msg.parses THEN [ pump |-> p, called |-> 0 ]
    ELSE IF msg.topic = MQTT_COMMAND_TOPIC
         THEN IF msg.hasOverride
              THEN LET overrideMode == msg.override
                       overrideState == IF msg.state # "absent" THEN msg.state = "ON"
                                        ELSE p.overrideState
                   IN  [ pump |-> setOverrideMode(p, overrideMode, overrideState), called |-> 1 ]
              ELSE [ pump |-> p, called |-> 0 ]
         ELSE [ pump |-> p, called |-> 0 ]

\* MqttHandler::mqttCallback with the command callback registered in setup()
mqttCallback(p, msg) ==
    IF ~msg.parses THEN [ pump |-> p, called |-> 0 ]
    ELSE IF msg.topic = MQTT_COMMAND_TOPIC
         THEN IF msg.hasOverride
              THEN LET overrideMode == msg.override
                       overrideState == IF msg.state # "absent" THEN msg.state = "ON" ELSE FALSE
                   IN  [ pump |-> setOverrideMode(p, overrideMode, overrideState), called |-> 1 ]
              ELSE [ pump |-> p, called |-> 0 ]
         ELSE [ pump |-> p, called |-> 0 ]

\* MqttHandler::MqttHandler; lastConnectAttempt is the function-local static of loop()
mqttBegin ==
    [ connected |-> FALSE, lastConnectAttempt |-> 0, lastStatusUpdate |-> 0 ]

\* connect that publishes first and subscribes last
connect_subscribeLast(m, s, p, rs, ok) ==
    IF ok
    THEN [ mqtt |-> [ m EXCEPT !.connected = TRUE ],
           out  |-> publishDiscovery(TRUE)
                    \o publishState(TRUE, s, p, rs)
                    \o publishPumpStatus(TRUE, p)
                    \o << Subscribe(MQTT_COMMAND_TOPIC) >> ]
    ELSE [ mqtt |-> m, out |-> << >> ]

\* connect that publishes the discovery and the state but no pump status
connect_withoutPumpStatus(m, s, p, rs, ok) ==
    IF ok
    THEN [ mqtt |-> [ m EXCEPT !.connected = TRUE ],
           out  |-> << Subscribe(MQTT_COMMAND_TOPIC) >>
                    \o publishDiscovery(TRUE)
                    \o publishState(TRUE, s, p, rs) ]
    ELSE [ mqtt |-> m, out |-> << >> ]

\* MqttHandler::connect, entered while the client is not connected; ok is the
\* outcome of _client.connect
connect(m, s, p, rs, ok) ==
    IF ok
    THEN [ mqtt |-> [ m EXCEPT !.connected = TRUE ],
           out  |-> << Subscribe(MQTT_COMMAND_TOPIC) >>
                    \o publishDiscovery(TRUE)
                    \o publishState(TRUE, s, p, rs)
                    \o publishPumpStatus(TRUE, p) ]
    ELSE [ mqtt |-> m, out |-> << >> ]

\* throttle that lets every pass try while the client is disconnected
connectDue_noThrottle(m, up) ==
    ~m.connected

\* throttle that gives up after the first attempt
connectDue_givesUp(m, up) ==
    ~m.connected /\ m.lastConnectAttempt = 0
                 /\ USub(millis(up), m.lastConnectAttempt) > ReconnectInterval

\* MqttHandler::loop: the throttle of reconnection attempts
connectDue(m, up) ==
    ~m.connected /\ USub(millis(up), m.lastConnectAttempt) > ReconnectInterval

\* first half that tries to connect whether or not a broker is configured
mqttReconnect_unconfigured(cfg, m, s, p, up, rs, ok, connectDelay) ==
    LET attempt == connectDue(m, up)
        c   == IF attempt THEN connect(m, s, p, rs, ok) ELSE [ mqtt |-> m, out |-> << >> ]
        up1 == IF attempt THEN up + connectDelay ELSE up
    IN  [ mqtt   |-> IF attempt THEN [ c.mqtt EXCEPT !.lastConnectAttempt = millis(up1) ] ELSE m,
          out    |-> c.out,
          uptime |-> up1 ]

\* MqttHandler::loop, first half: the throttled connection attempt.  ok and
\* connectDelay are the outcome and the duration of the attempt
mqttReconnect(cfg, m, s, p, up, rs, ok, connectDelay) ==
    IF ~cfg.mqttConfigured
    THEN [ mqtt |-> m, out |-> << >>, uptime |-> up ]
    ELSE
      LET attempt == connectDue(m, up)
          c   == IF attempt THEN connect(m, s, p, rs, ok) ELSE [ mqtt |-> m, out |-> << >> ]
          up1 == IF attempt THEN up + connectDelay ELSE up
      IN  [ mqtt   |-> IF attempt THEN [ c.mqtt EXCEPT !.lastConnectAttempt = millis(up1) ] ELSE m,
            out    |-> c.out,
            uptime |-> up1 ]

\* second half that stops the pump while the broker is not connected
mqttService_failSafe(cfg, c, s, p, rs, msg) ==
    IF cfg.mqttConfigured /\ c.mqtt.connected
    THEN LET cb == IF msg = NoMessage THEN [ pump |-> p, called |-> 0 ]
                                        ELSE mqttCallback(p, msg)
             beat == USub(millis(c.uptime), c.mqtt.lastStatusUpdate) > statusUpdateInterval
         IN  [ mqtt   |-> IF beat THEN [ c.mqtt EXCEPT !.lastStatusUpdate = millis(c.uptime) ]
                                  ELSE c.mqtt,
               pump   |-> cb.pump,
               called |-> cb.called,
               beat   |-> beat,
               out    |-> c.out \o (IF beat THEN publishState(TRUE, s, cb.pump, rs) ELSE << >>) ]
    ELSE [ mqtt |-> c.mqtt,
           pump |-> [ p EXCEPT !.lastPumpState = IF p.pumpState THEN TRUE ELSE @,
                               !.pumpState = FALSE, !.relayPin = FALSE ],
           called |-> 0, beat |-> FALSE, out |-> c.out ]

\* second half whose periodic state update is made once only
mqttService_beatOnce(cfg, c, s, p, rs, msg) ==
    IF cfg.mqttConfigured /\ c.mqtt.connected
    THEN LET cb == IF msg = NoMessage THEN [ pump |-> p, called |-> 0 ]
                                        ELSE mqttCallback(p, msg)
             beat == /\ c.mqtt.lastStatusUpdate = 0
                     /\ USub(millis(c.uptime), c.mqtt.lastStatusUpdate) > statusUpdateInterval
         IN  [ mqtt   |-> IF beat THEN [ c.mqtt EXCEPT !.lastStatusUpdate = millis(c.uptime) ]
                                  ELSE c.mqtt,
               pump   |-> cb.pump,
               called |-> cb.called,
               beat   |-> beat,
               out    |-> c.out \o (IF beat THEN publishState(TRUE, s, cb.pump, rs) ELSE << >>) ]
    ELSE [ mqtt |-> c.mqtt, pump |-> p, called |-> 0, beat |-> FALSE, out |-> c.out ]

\* mqttService whose periodic update reports the controller as it was before
\* _client.loop() delivered the command
mqttService_staleBeat(cfg, c, s, p, rs, msg) ==
    IF cfg.mqttConfigured /\ c.mqtt.connected
    THEN LET cb == IF msg = NoMessage THEN [ pump |-> p, called |-> 0 ]
                                        ELSE mqttCallback(p, msg)
             beat == USub(millis(c.uptime), c.mqtt.lastStatusUpdate) > statusUpdateInterval
         IN  [ mqtt   |-> IF beat THEN [ c.mqtt EXCEPT !.lastStatusUpdate = millis(c.uptime) ]
                                  ELSE c.mqtt,
               pump   |-> cb.pump,
               called |-> cb.called,
               beat   |-> beat,
               out    |-> c.out \o (IF beat THEN publishState(TRUE, s, p, rs) ELSE << >>) ]
    ELSE [ mqtt |-> c.mqtt, pump |-> p, called |-> 0, beat |-> FALSE, out |-> c.out ]

\* MqttHandler::loop, second half: _client.loop() and the periodic state
\* update.  c is the result of the first half, msg the packet _client.loop()
\* reads (NoMessage if none)
mqttService(cfg, c, s, p, rs, msg) ==
    IF cfg.mqttConfigured /\ c.mqtt.connected
    THEN LET cb == IF msg = NoMessage THEN [ pump |-> p, called |-> 0 ]
                                        ELSE mqttCallback(p, msg)
             beat == USub(millis(c.uptime), c.mqtt.lastStatusUpdate) > statusUpdateInterval
         IN  [ mqtt   |-> IF beat THEN [ c.mqtt EXCEPT !.lastStatusUpdate = millis(c.uptime) ]
                                  ELSE c.mqtt,
               pump   |-> cb.pump,
               called |-> cb.called,
               beat   |-> beat,
               out    |-> c.out \o (IF beat THEN publishState(TRUE, s, cb.pump, rs) ELSE << >>) ]
    ELSE [ mqtt |-> c.mqtt, pump |-> p, called |-> 0, beat |-> FALSE, out |-> c.out ]

(***************************************************************************)
(* WebServerHandler                                                        *)
(***************************************************************************)
WebActions == {"missing", "on", "off", "auto", "toggle"}
SaveRequest == [ path |-> "/save", action |-> "missing" ]
WebRequests ==
    { [ path |-> "/", action |-> "missing" ],
      SaveRequest,
      [ path |-> "/favicon.ico", action |-> "missing" ] }
    \cup [ path : {"/pump"}, action : WebActions ]

\* handlePumpControl whose action "off" also cuts the pump on the spot
handlePumpControl_cutsPump(p, action) ==
    IF action = "missing" THEN [ pump |-> p, status |-> 400 ]
    ELSE IF action = "on" THEN [ pump |-> setOverrideMode(p, TRUE, TRUE), status |-> 303 ]
    ELSE IF action = "off"
         THEN [ pump |-> [ setOverrideMode(p, TRUE, FALSE) EXCEPT
                             !.lastPumpState = p.pumpState, !.pumpState = FALSE, !.relayPin = FALSE ],
                status |-> 303 ]
    ELSE IF action = "auto" THEN [ pump |-> setOverrideMode(p, FALSE, FALSE), status |-> 303 ]
    ELSE [ pump |-> p, status |-> 400 ]

\* handlePumpControl that takes every unknown action for "off"
handlePumpControl_defaultsOff(p, action) ==
    IF action = "missing" THEN [ pump |-> p, status |-> 400 ]
    ELSE IF action = "on" THEN [ pump |-> setOverrideMode(p, TRUE, TRUE), status |-> 303 ]
    ELSE IF action = "auto" THEN [ pump |-> setOverrideMode(p, FALSE, FALSE), status |-> 303 ]
    ELSE [ pump |-> setOverrideMode(p, TRUE, FALSE), status |-> 303 ]

\* handlePumpControl whose "auto" leaves the override target as it finds it
handlePumpControl_autoKeepsTarget(p, action) ==
    IF action = "missing" THEN [ pump |-> p, status |-> 400 ]
    ELSE IF action = "on" THEN [ pump |-> setOverrideMode(p, TRUE, TRUE), status |-> 303 ]
    ELSE IF action = "off" THEN [ pump |-> setOverrideMode(p, TRUE, FALSE), status |-> 303 ]
    ELSE IF action = "auto" THEN [ pump |-> setOverrideMode(p, FALSE, p.overrideState), status |-> 303 ]
    ELSE [ pump |-> p, status |-> 400 ]

\* WebServerHandler::handlePumpControl
handlePumpControl(p, action) ==
    IF action = "missing" THEN [ pump |-> p, status |-> 400 ]
    ELSE IF action = "on" THEN [ pump |-> setOverrideMode(p, TRUE, TRUE), status |-> 303 ]
    ELSE IF action = "off" THEN [ pump |-> setOverrideMode(p, TRUE, FALSE), status |-> 303 ]
    ELSE IF action = "auto" THEN [ pump |-> setOverrideMode(p, FALSE, FALSE), status |-> 303 ]
    ELSE [ pump |-> p, status |-> 400 ]

\* the routes registered in WebServerHandler::begin
handleClient(p, req) ==
    IF req.path = "/pump" THEN handlePumpControl(p, req.action)
    ELSE IF req.path \in {"/", "/save"} THEN [ pump |-> p, status |-> 200 ]
    ELSE [ pump |-> p, status |-> 404 ]

(***************************************************************************)
(* setup() and loop()                                                      *)
(***************************************************************************)
Changed(p, q) == IF p.pumpState # q.pumpState THEN 1 ELSE 0

\* a debounced sensor value differs between two states of the reader
Edge(s, t) ==
    IF s.lowSensorState # t.lowSensorState \/ s.highSensorState # t.highSensorState THEN 1 ELSE 0

NewPass == [ ticks |-> 0, transitions |-> 0, samples |-> 0, edges |-> 0, callbacks |-> 0 ]

\* what WaterLevelSensor::begin may leave, over the pin levels at boot
BootSensors == { sensorBegin(lowReads, highReads) : lowReads \in PinReads, highReads \in PinReads }

\* the state after the constructors and setup()
Boot(bootSensor, configured) ==
    /\ pc' = "system"
    /\ uptime' = 0
    /\ synced' = FALSE
    /\ settings' = [ mqttConfigured |-> configured ]
    /\ sensor' = bootSensor
    /\ pump' = pumpBegin
    /\ mqtt' = mqttBegin
    /\ outbox' = << >>
    /\ rssi' = 0
    /\ inbox' = NoMessage
    /\ attempts' = << >>
    /\ beatAt' = 0
    /\ debounce' = NoCall
    /\ web' = 0
    /\ pass' = NewPass

Init ==
    /\ pc = "system"
    /\ uptime = 0
    /\ synced = FALSE
    /\ settings \in [ mqttConfigured : BOOLEAN ]
    /\ sensor \in BootSensors
    /\ pump = pumpBegin
    /\ mqtt = mqttBegin
    /\ outbox = << >>
    /\ rssi = 0
    /\ inbox = NoMessage
    /\ attempts = << >>
    /\ beatAt = 0
    /\ debounce = NoCall
    /\ web = 0
    /\ pass = NewPass

\* loop(): entry of a pass; the time the previous pass took has elapsed
SystemLoop ==
    /\ pc = "system"
    /\ \E d \in LoopDelays :
          /\ uptime + d <= MaxUptime
          /\ uptime' = uptime + d
    /\ outbox' = << >>
    /\ rssi' = 0
    /\ inbox' = NoMessage
    /\ pass' = NewPass
    /\ pc' = "pump"
    /\ UNCHANGED <<synced, settings, sensor, pump, mqtt, web, attempts, beatAt, debounce>>

\* loop(): pumpController.loop()
PumpLoop ==
    /\ pc = "pump"
    /\ \E lowReads \in PinReads, highReads \in PinReads :
          LET r == pumpLoop(pump, sensor, lowReads, highReads,
                            timeNow(uptime, synced), millis(uptime))
          IN  \* override mode reads no pin
              /\ pump.overrideMode => (lowReads = QuietReads /\ highReads = QuietReads)
              /\ pump' = r.pump
              /\ sensor' = r.sensor
              /\ pass' = [ pass EXCEPT !.ticks = @ + 1,
                                       !.transitions = @ + Changed(pump, r.pump),
                                       !.samples = @ + r.samples,
                                       !.edges = @ + Edge(sensor, r.sensor) ]
    /\ outbox' = << >>
    /\ rssi' = 0
    /\ inbox' = NoMessage
    /\ pc' = "mqtt"
    /\ UNCHANGED <<uptime, synced, settings, mqtt, web, attempts, beatAt, debounce>>

\* loop(): mqttClient.loop()
MqttLoop ==
    /\ pc = "mqtt"
    /\ \E ok \in BOOLEAN, connectDelay \in ConnectDelays, rs \in RssiValues :
          LET c == mqttReconnect(settings, mqtt, sensor, pump, uptime, rs, ok, connectDelay)
              attempt == settings.mqttConfigured /\ connectDue(mqtt, uptime)
              served == settings.mqttConfigured /\ c.mqtt.connected
          IN  \* inputs that are not consumed are not enumerated
              /\ attempt \/ (~ok /\ connectDelay = 0)
              /\ c.uptime <= MaxUptime
              /\ attempts' = IF attempt THEN Append(attempts, c.uptime) ELSE attempts
              /\ \E msg \in (IF served THEN InboundMessages ELSE {}) \cup {NoMessage} :
                    LET r == mqttService(settings, c, sensor, pump, rs, msg)
                    IN  /\ r.out # << >> \/ rs = QuietRssi
                        /\ mqtt' = r.mqtt
                        /\ pump' = r.pump
                        /\ outbox' = r.out
                        /\ rssi' = IF StatePublished(r.out) THEN rs ELSE 0
                        /\ inbox' = msg
                        /\ beatAt' = IF r.beat THEN c.uptime ELSE beatAt
                        /\ uptime' = c.uptime
                        /\ pass' = [ pass EXCEPT !.transitions = @ + Changed(pump, r.pump),
                                                 !.callbacks = @ + r.called ]
    /\ pc' = "web"
    /\ UNCHANGED <<synced, settings, sensor, web, debounce>>

\* loop(): webServer.loop() with no request pending
WebIdle ==
    /\ pc = "web"
    /\ outbox' = << >>
    /\ rssi' = 0
    /\ inbox' = NoMessage
    /\ pc' = "publish"
    /\ UNCHANGED <<uptime, synced, settings, sensor, pump, mqtt, web, pass, attempts, beatAt, debounce>>

\* loop(): webServer.loop() serving one request
WebLoop ==
    /\ pc = "web"
    /\ \E req \in WebRequests \ {SaveRequest} :
          LET r == handleClient(pump, req)
          IN  /\ pump' = r.pump
              /\ web' = r.status
              /\ pass' = [ pass EXCEPT !.transitions = @ + Changed(pump, r.pump) ]
    /\ outbox' = << >>
    /\ rssi' = 0
    /\ inbox' = NoMessage
    /\ pc' = "publish"
    /\ UNCHANGED <<uptime, synced, settings, sensor, mqtt, attempts, beatAt, debounce>>

\* loop(): webServer.loop() serving /save: handleSave ends in ESP.restart() and
\* the device comes up again through the constructors and setup()
WebSave ==
    /\ pc = "web"
    /\ \E bootSensor \in BootSensors, configured \in BOOLEAN :
          Boot(bootSensor, configured)

\* loop(): the change-driven publishes that end a pass
PublishLoop ==
    /\ pc = "publish"
    /\ \E rs \in RssiValues :
          LET sensorChanged == hasLowSensorChanged(sensor) \/ hasHighSensorChanged(sensor)
          IN  \* the signal strength is read only by publishState
              /\ (sensorChanged /\ mqtt.connected) \/ rs = QuietRssi
              /\ inbox' = NoMessage
              /\ rssi' = IF sensorChanged /\ mqtt.connected THEN rs ELSE 0
              /\ outbox' =
                         (IF hasPumpStateChanged(pump)
                          THEN publishPumpStatus(mqtt.connected, pump) ELSE << >>)
                      \o (IF sensorChanged
                          THEN publishState(mqtt.connected, sensor, pump, rs) ELSE << >>)
    /\ sensor' = IF hasLowSensorChanged(sensor) \/ hasHighSensorChanged(sensor)
                 THEN resetChangeFlags(sensor) ELSE sensor
    /\ web' = 0
    /\ pc' = "system"
    /\ UNCHANGED <<uptime, synced, settings, pump, mqtt, pass, attempts, beatAt, debounce>>

\* the broker connection is lost
NetworkDrop ==
    /\ mqtt.connected
    /\ mqtt' = [ mqtt EXCEPT !.connected = FALSE ]
    /\ UNCHANGED <<pc, uptime, synced, settings, sensor, pump, outbox, inbox, web, pass, attempts, beatAt, debounce, rssi>>

\* NTP sets the wall clock
NtpSync ==
    /\ ~synced
    /\ synced' = TRUE
    /\ UNCHANGED <<pc, uptime, settings, sensor, pump, mqtt, outbox, inbox, web, pass, attempts, beatAt, debounce, rssi>>

Next ==
    \/ SystemLoop
    \/ PumpLoop
    \/ MqttLoop
    \/ WebIdle
    \/ WebLoop
    \/ PublishLoop
    \/ WebSave
    \/ NetworkDrop
    \/ NtpSync

Spec == Init /\ [][Next]_vars

(***************************************************************************)
(* The sketch with messaging configured and the broker unreachable: every  *)
(* connection attempt fails.  loop() is called again and again by the      *)
(* Arduino core and each phase of it returns.                              *)
(***************************************************************************)
InitOffline == Init /\ settings.mqttConfigured

\* loop(): mqttClient.loop() when _client.connect fails: no packet is read and
\* the signal strength is not
MqttLoopOffline ==
    /\ pc = "mqtt"
    /\ \E connectDelay \in ConnectDelays :
          LET c == mqttReconnect(settings, mqtt, sensor, pump, uptime, QuietRssi, FALSE, connectDelay)
              attempt == settings.mqttConfigured /\ connectDue(mqtt, uptime)
              r == mqttService(settings, c, sensor, pump, QuietRssi, NoMessage)
          IN  /\ attempt \/ connectDelay = 0
              /\ c.uptime <= MaxUptime
              /\ attempts' = IF attempt THEN Append(attempts, c.uptime) ELSE attempts
              /\ mqtt' = r.mqtt
              /\ pump' = r.pump
              /\ outbox' = r.out
              /\ rssi' = IF StatePublished(r.out) THEN QuietRssi ELSE 0
              /\ inbox' = NoMessage
              /\ beatAt' = IF r.beat THEN c.uptime ELSE beatAt
              /\ uptime' = c.uptime
              /\ pass' = [ pass EXCEPT !.transitions = @ + Changed(pump, r.pump),
                                       !.callbacks = @ + r.called ]
    /\ pc' = "web"
    /\ UNCHANGED <<synced, settings, sensor, web, debounce>>

\* loop(): the phase the control loop is at
LoopOffline ==
    \/ SystemLoop
    \/ PumpLoop
    \/ MqttLoopOffline
    \/ WebIdle
    \/ WebLoop
    \/ PublishLoop

NextOffline ==
    \/ LoopOffline
    \/ NtpSync

\* the phase loop() is at always completes
SpecOffline == InitOffline /\ [][NextOffline]_vars /\ WF_vars(LoopOffline)

(***************************************************************************)
(* WaterLevelSensor::readSensor on its own, one statement at a time, over   *)
(* every sequence of levels the pin may show                               *)
(***************************************************************************)
\* every sequence of five pin levels
AllReads == [ 1..DebounceReads -> BOOLEAN ]

ReadInit ==
    /\ pc = "readSensor"
    /\ uptime = 0
    /\ synced = FALSE
    /\ settings = [ mqttConfigured |-> FALSE ]
    /\ sensor = sensorBegin(QuietReads, QuietReads)
    /\ pump = pumpBegin
    /\ mqtt = mqttBegin
    /\ outbox = << >>
    /\ rssi = 0
    /\ inbox = NoMessage
    /\ attempts = << >>
    /\ beatAt = 0
    /\ debounce \in { readSensorEntry(reads) : reads \in AllReads }
    /\ web = 0
    /\ pass = NewPass

\* the body of the for loop: digitalRead, the count, i++
ReadPin ==
    /\ pc = "readSensor"
    /\ ~debounce.returned
    /\ debounce.i < DebounceReads
    /\ debounce' = [ debounce EXCEPT
                       !.i = @ + 1,
                       !.activeCount = IF debounce.reads[debounce.i + 1] THEN @ + 1 ELSE @ ]
    /\ UNCHANGED <<pc, uptime, synced, settings, sensor, pump, mqtt, outbox, inbox, web, pass,
                   attempts, beatAt, rssi>>

\* the loop is left and the vote returned
ReadReturn ==
    /\ pc = "readSensor"
    /\ ~debounce.returned
    /\ ~(debounce.i < DebounceReads)
    /\ debounce' = [ debounce EXCEPT !.returned = TRUE,
                                     !.result = debounce.activeCount >= DebounceMajority ]
    /\ UNCHANGED <<pc, uptime, synced, settings, sensor, pump, mqtt, outbox, inbox, web, pass,
                   attempts, beatAt, rssi>>

ReadNext ==
    \/ ReadPin
    \/ ReadReturn

SpecReadSensor == ReadInit /\ [][ReadNext]_vars

(***************************************************************************)
(* MqttHandler::publishState on its own, connected, over every reading of  *)
(* the signal strength                                                     *)
(***************************************************************************)
\* the readings of WiFi.RSSI(): dBm as a signed byte, 31 when there is none
RssiRange == (-128)..31

PublishStateInit ==
    /\ pc = "publishState"
    /\ uptime = 0
    /\ synced = FALSE
    /\ settings = [ mqttConfigured |-> TRUE ]
    /\ sensor \in BootSensors
    /\ pump \in { pumpBegin, setOverrideMode(pumpBegin, TRUE, TRUE) }
    /\ mqtt = [ mqttBegin EXCEPT !.connected = TRUE ]
    /\ outbox = << >>
    /\ rssi = 0
    /\ inbox = NoMessage
    /\ attempts = << >>
    /\ beatAt = 0
    /\ debounce = NoCall
    /\ web = 0
    /\ pass = NewPass

\* MqttHandler::publishState
PublishStateCall ==
    /\ pc = "publishState"
    /\ \E rs \in RssiRange :
          /\ outbox' = publishState(mqtt.connected, sensor, pump, rs)
          /\ rssi' = rs
    /\ UNCHANGED <<pc, uptime, synced, settings, sensor, pump, mqtt, inbox, web, pass,
                   attempts, beatAt, debounce>>

PublishStateNext == PublishStateCall

SpecPublishState == PublishStateInit /\ [][PublishStateNext]_vars

(***************************************************************************)
(* PumpController and the WaterLevelSensor it samples on their own: a       *)
(* caller that uses their public operations in any order                   *)
(***************************************************************************)
\* PumpController::PumpController and begin(), sensors begun
ApiInit ==
    /\ pc = "api"
    /\ uptime = 0
    /\ synced = FALSE
    /\ settings = [ mqttConfigured |-> FALSE ]
    /\ sensor \in BootSensors
    /\ pump = pumpBegin
    /\ mqtt = mqttBegin
    /\ outbox = << >>
    /\ rssi = 0
    /\ inbox = NoMessage
    /\ attempts = << >>
    /\ beatAt = 0
    /\ debounce = NoCall
    /\ web = 0
    /\ pass = NewPass

\* PumpController::loop, called some time after the previous call
ApiLoop ==
    /\ pc = "api"
    /\ \E d \in LoopDelays, lowReads \in PinReads, highReads \in PinReads :
          LET r == pumpLoop(pump, sensor, lowReads, highReads,
                            timeNow(uptime + d, synced), millis(uptime + d))
          IN  /\ uptime + d <= MaxUptime
              /\ pump.overrideMode => (lowReads = QuietReads /\ highReads = QuietReads)
              /\ uptime' = uptime + d
              /\ pump' = r.pump
              /\ sensor' = r.sensor
    /\ UNCHANGED <<pc, synced, settings, mqtt, outbox, inbox, web, pass, attempts, beatAt, debounce, rssi>>

\* PumpController::setOverrideMode
ApiSetOverrideMode ==
    /\ pc = "api"
    /\ \E enabled \in BOOLEAN, state \in BOOLEAN : pump' = setOverrideMode(pump, enabled, state)
    /\ UNCHANGED <<pc, uptime, synced, settings, sensor, mqtt, outbox, inbox, web, pass, attempts, beatAt, debounce, rssi>>

\* PumpController::updateTimestamps
ApiUpdateTimestamps ==
    /\ pc = "api"
    /\ pump' = updateTimestamps(pump, timeNow(uptime, synced), millis(uptime))
    /\ UNCHANGED <<pc, uptime, synced, settings, sensor, mqtt, outbox, inbox, web, pass, attempts, beatAt, debounce, rssi>>

\* WaterLevelSensor::resetChangeFlags
ApiResetChangeFlags ==
    /\ pc = "api"
    /\ sensor' = resetChangeFlags(sensor)
    /\ UNCHANGED <<pc, uptime, synced, settings, pump, mqtt, outbox, inbox, web, pass, attempts,
                   beatAt, debounce, rssi>>

ApiNext ==
    \/ ApiLoop
    \/ ApiResetChangeFlags
    \/ ApiSetOverrideMode
    \/ ApiUpdateTimestamps
    \/ NtpSync

SpecApi == ApiInit /\ [][ApiNext]_vars


(***************************************************************************)
(* The library variant of the controller                                   *)
(* (libraries/WaterTankController/src/pump/controller.cpp) with the        *)
(* library's WaterLevelSensor, used by a caller that calls loop() and      *)
(* setOverrideMode() in any order                                          *)
(***************************************************************************)
\* library PumpController::PumpController followed by begin(): relay driven LOW
controller_begin ==
    [ overrideMode     |-> FALSE,
      overrideState    |-> FALSE,
      pumpState        |-> FALSE,
      lastPumpState    |-> FALSE,
      pumpLastOnAt     |-> 0,
      pumpLastOffAt    |-> 0,
      pumpLastOnEpoch  |-> 0,
      pumpLastOffEpoch |-> 0,
      relayPin         |-> FALSE ]

\* library WaterLevelSensor::update (sensors/water_level.cpp)
waterLevel_update(s, lowReads, highReads) ==
    [ lowSensorState      |-> readSensor(lowReads),
      highSensorState     |-> readSensor(highReads),
      lastLowSensorState  |-> s.lowSensorState,
      lastHighSensorState |-> s.highSensorState ]

\* library PumpController::setPumpState
controller_setPumpState(p, state, currentTime, now) ==
    IF p.pumpState # state
    THEN LET switched == [ p EXCEPT !.pumpState = state, !.relayPin = state ]
         IN  IF state
             THEN [ switched EXCEPT
                      !.pumpLastOnAt = now,
                      !.pumpLastOnEpoch = IF currentTime > EpochThreshold THEN currentTime ELSE @ ]
             ELSE [ switched EXCEPT
                      !.pumpLastOffAt = now,
                      !.pumpLastOffEpoch = IF currentTime > EpochThreshold THEN currentTime ELSE @ ]
    ELSE p

\* library PumpController::handleAutomaticControl
controller_handleAutomaticControl(p, s, lowReads, highReads, currentTime, now) ==
    LET sampled   == waterLevel_update(s, lowReads, highReads)
        lowWater  == sampled.lowSensorState
        highWater == sampled.highSensorState
    IN  [ sensor |-> sampled,
          pump   |-> IF lowWater /\ ~highWater
                     THEN controller_setPumpState(p, TRUE, currentTime, now)
                     ELSE IF highWater
                          THEN controller_setPumpState(p, FALSE, currentTime, now)
                          ELSE p ]

\* library loop() that returns without copying the state to the previous-state field
controller_loop_noCopy(p, s, lowReads, highReads, currentTime, now) ==
    IF p.overrideMode
    THEN [ sensor |-> s,
           pump   |-> IF p.pumpState # p.overrideState
                      THEN controller_setPumpState(p, p.overrideState, currentTime, now)
                      ELSE p ]
    ELSE controller_handleAutomaticControl(p, s, lowReads, highReads, currentTime, now)

\* library PumpController::loop
controller_loop(p, s, lowReads, highReads, currentTime, now) ==
    LET r == IF p.overrideMode
             THEN [ sensor |-> s,
                    pump   |-> IF p.pumpState # p.overrideState
                               THEN controller_setPumpState(p, p.overrideState, currentTime, now)
                               ELSE p ]
             ELSE controller_handleAutomaticControl(p, s, lowReads, highReads, currentTime, now)
    IN  [ sensor |-> r.sensor,
          pump   |-> [ r.pump EXCEPT !.lastPumpState = r.pump.pumpState ] ]

\* library PumpController::setOverrideMode
controller_setOverrideMode(p, enabled, state) ==
    [ p EXCEPT !.overrideMode = enabled, !.overrideState = state ]

\* library PumpController::hasPumpStateChanged
controller_hasPumpStateChanged(p) == p.pumpState # p.lastPumpState

\* the library's constructors and begin()
ControllerInit ==
    /\ pc = "controller"
    /\ uptime = 0
    /\ synced = FALSE
    /\ settings = [ mqttConfigured |-> FALSE ]
    /\ sensor \in BootSensors
    /\ pump = controller_begin
    /\ mqtt = mqttBegin
    /\ outbox = << >>
    /\ rssi = 0
    /\ inbox = NoMessage
    /\ attempts = << >>
    /\ beatAt = 0
    /\ debounce = NoCall
    /\ web = 0
    /\ pass = NewPass

\* pumpController.loop(), called some time after the previous call; in
\* override mode the sensors are not read
ControllerLoop ==
    /\ pc = "controller"
    /\ \E d \in LoopDelays, lowReads \in PinReads, highReads \in PinReads :
          LET r == controller_loop(pump, sensor, lowReads, highReads,
                                   timeNow(uptime + d, synced), millis(uptime + d))
          IN  /\ uptime + d <= MaxUptime
              /\ pump.overrideMode => (lowReads = QuietReads /\ highReads = QuietReads)
              /\ uptime' = uptime + d
              /\ pump' = r.pump
              /\ sensor' = r.sensor
    /\ UNCHANGED <<pc, synced, settings, mqtt, outbox, inbox, web, pass, attempts, beatAt,
                   debounce, rssi>>

\* pumpController.setOverrideMode(enabled, state)
ControllerSetOverrideMode ==
    /\ pc = "controller"
    /\ \E enabled \in BOOLEAN, state \in BOOLEAN :
          pump' = controller_setOverrideMode(pump, enabled, state)
    /\ UNCHANGED <<pc, uptime, synced, settings, sensor, mqtt, outbox, inbox, web, pass, attempts,
                   beatAt, debounce, rssi>>

ControllerNext ==
    \/ ControllerLoop
    \/ ControllerSetOverrideMode
    \/ NtpSync

SpecController == ControllerInit /\ [][ControllerNext]_vars


(***************************************************************************)
(* The legacy single-file sketch (WaterTankAutomation.ino, first program): *)
(* loop() followed call by call.  reconnectMQTT() is a while loop; each    *)
(* round of it is a step.  millis() does not wrap within the explored      *)
(* uptime and is read as the uptime itself.                                *)
(***************************************************************************)
\* "delay(5000)" between two connection attempts of reconnectMQTT
legacy_retryDelay == 5000

\* "const long statusUpdateInterval = 10000"
legacy_statusUpdateInterval == 10000

\* the globals after setup(): relay LOW, nothing sampled yet
legacy_pump ==
    [ overrideMode |-> FALSE, overrideState |-> FALSE, pumpState |-> FALSE,
      lastPumpState |-> FALSE, relayPin |-> FALSE ]

legacy_sensor ==
    [ lowSensorState |-> FALSE, highSensorState |-> FALSE,
      lastLowSensorState |-> FALSE, lastHighSensorState |-> FALSE ]

\* client.publish: nothing leaves the device unless the client is connected
legacy_publish(connected, doc) == IF connected THEN << doc >> ELSE << >>

\* publishState, publishPumpStatus, publishSensorStatus of the legacy sketch
legacy_publishState(connected, s, p) ==
    legacy_publish(connected,
                   [ state |-> IF p.pumpState THEN "ON" ELSE "OFF",
                     low_sensor |-> s.lowSensorState,
                     high_sensor |-> s.highSensorState,
                     mode |-> IF p.overrideMode THEN "MANUAL" ELSE "AUTO" ])

legacy_publishPumpStatus(connected, p) ==
    legacy_publish(connected, [ state |-> IF p.pumpState THEN "ON" ELSE "OFF" ])

legacy_publishSensorStatus(connected, s) ==
    legacy_publish(connected, [ low_sensor |-> s.lowSensorState,
                                high_sensor |-> s.highSensorState ])

\* handlePumpLogic of the legacy sketch
legacy_handlePumpLogic(p, s, lowReads, highReads, connected) ==
    LET low     == readSensor(lowReads)
        high    == readSensor(highReads)
        changed == low # s.lastLowSensorState \/ high # s.lastHighSensorState
        sampled == [ lowSensorState      |-> low,
                     highSensorState     |-> high,
                     lastLowSensorState  |-> IF changed THEN low ELSE s.lastLowSensorState,
                     lastHighSensorState |-> IF changed THEN high ELSE s.lastHighSensorState ]
        target  == IF ~p.overrideMode
                   THEN (IF high THEN FALSE ELSE IF ~low THEN TRUE ELSE p.pumpState)
                   ELSE p.overrideState
        driven  == [ p EXCEPT !.pumpState = target, !.relayPin = target ]
    IN  [ sensor |-> sampled,
          pump   |-> [ driven EXCEPT !.lastPumpState = target ],
          out    |-> (IF changed THEN legacy_publishSensorStatus(connected, sampled) ELSE << >>)
                     \o (IF target # p.lastPumpState
                         THEN legacy_publishPumpStatus(connected, driven) ELSE << >>) ]

\* the messages client.loop() may hand to mqttCallback: the topic, the "state"
\* value and the "mode" value ("absent" when the key is missing)
LegacyMessages ==
    [ topic : {"command", "other"}, state : {"absent", "ON", "OFF"}, mode : {"absent", "AUTO"} ]

\* mqttCallback of the legacy sketch
legacy_mqttCallback(p, s, msg) ==
    IF msg.topic = "command"
    THEN LET p1 == IF msg.state = "ON"
                   THEN [ p EXCEPT !.overrideMode = TRUE, !.overrideState = TRUE ]
                   ELSE IF msg.state = "OFF"
                        THEN [ p EXCEPT !.overrideMode = TRUE, !.overrideState = FALSE ]
                        ELSE p
             p2 == IF msg.mode = "AUTO" THEN [ p1 EXCEPT !.overrideMode = FALSE ] ELSE p1
         IN  [ pump |-> p2, out |-> legacy_publishState(TRUE, s, p2) ]
    ELSE [ pump |-> p, out |-> << >> ]

\* setup() of the legacy sketch: the stored configuration names a broker or
\* not; the access point is opened when WiFi did not come up
LegacyInit ==
    /\ pc = "legacy_loop"
    /\ uptime = 0
    /\ synced = FALSE
    /\ \E configured \in BOOLEAN, wifi \in BOOLEAN :
          settings = [ mqttConfigured |-> configured, apMode |-> ~wifi, wifi |-> wifi ]
    /\ sensor = legacy_sensor
    /\ pump = legacy_pump
    /\ mqtt = [ connected |-> FALSE, lastStatusUpdate |-> 0 ]
    /\ outbox = << >>
    /\ rssi = 0
    /\ inbox = NoMessage
    /\ attempts = << >>
    /\ beatAt = 0
    /\ debounce = NoCall
    /\ web = 0
    /\ pass = [ attempts |-> 0 ]

\* loop() up to the call of reconnectMQTT()
LegacyLoop ==
    /\ pc = "legacy_loop"
    /\ pc' = IF ~settings.apMode /\ settings.wifi /\ settings.mqttConfigured
             THEN (IF ~mqtt.connected THEN "legacy_reconnect" ELSE "legacy_client")
             ELSE "legacy_pump"
    /\ outbox' = << >>
    /\ UNCHANGED <<uptime, synced, settings, sensor, pump, mqtt, inbox, web, pass, attempts,
                   beatAt, debounce, rssi>>

\* reconnectMQTT(): one round of "while (!client.connected() && mqttConfigured)";
\* a successful connect subscribes, publishes and returns, a failed one waits
\* and goes round again
LegacyReconnect ==
    /\ pc = "legacy_reconnect"
    /\ IF ~mqtt.connected /\ settings.mqttConfigured
       THEN \E ok \in BOOLEAN :
               /\ uptime + (IF ok THEN 0 ELSE legacy_retryDelay) <= MaxUptime
               /\ pass' = [ pass EXCEPT !.attempts = @ + 1 ]
               /\ IF ok
                  THEN /\ mqtt' = [ mqtt EXCEPT !.connected = TRUE ]
                       /\ outbox' = << "online" >> \o legacy_publishState(TRUE, sensor, pump)
                       /\ pc' = "legacy_client"
                       /\ UNCHANGED uptime
                  ELSE /\ uptime' = uptime + legacy_retryDelay
                       /\ UNCHANGED <<mqtt, outbox, pc>>
       ELSE /\ pc' = "legacy_client"
            /\ UNCHANGED <<uptime, mqtt, outbox, pass>>
    /\ UNCHANGED <<synced, settings, sensor, pump, inbox, web, attempts, beatAt, debounce, rssi>>

\* loop() after reconnectMQTT(): client.loop(), which may deliver a message to
\* mqttCallback, and the periodic publishState()
LegacyClientLoop ==
    /\ pc = "legacy_client"
    /\ \E deliver \in BOOLEAN, msg \in LegacyMessages :
          LET r   == IF deliver /\ mqtt.connected
                     THEN legacy_mqttCallback(pump, sensor, msg)
                     ELSE [ pump |-> pump, out |-> << >> ]
              due == uptime - mqtt.lastStatusUpdate > legacy_statusUpdateInterval
          IN  /\ ~deliver => msg = CHOOSE m \in LegacyMessages : TRUE
              /\ pump' = r.pump
              /\ outbox' = outbox \o r.out
                             \o (IF due THEN legacy_publishState(mqtt.connected, sensor, r.pump)
                                 ELSE << >>)
              /\ mqtt' = IF due THEN [ mqtt EXCEPT !.lastStatusUpdate = uptime ] ELSE mqtt
    /\ pc' = "legacy_pump"
    /\ UNCHANGED <<uptime, synced, settings, sensor, inbox, web, pass, attempts, beatAt,
                   debounce, rssi>>

\* the end of loop(): server.handleClient(), handleLED() and handlePumpLogic();
\* the next call of loop() starts some time later
LegacyPumpLogic ==
    /\ pc = "legacy_pump"
    /\ \E d \in LoopDelays, lowReads \in PinReads, highReads \in PinReads :
          LET r == legacy_handlePumpLogic(pump, sensor, lowReads, highReads, mqtt.connected)
          IN  /\ uptime + d <= MaxUptime
              /\ uptime' = uptime + d
              /\ sensor' = r.sensor
              /\ pump' = r.pump
              /\ outbox' = outbox \o r.out
    /\ pass' = [ pass EXCEPT !.attempts = 0 ]
    /\ pc' = "legacy_loop"
    /\ UNCHANGED <<synced, settings, mqtt, inbox, web, attempts, beatAt, debounce, rssi>>

\* the connection to the broker is lost
LegacyNetworkDrop ==
    /\ pc \in {"legacy_loop", "legacy_pump"}
    /\ mqtt.connected
    /\ mqtt' = [ mqtt EXCEPT !.connected = FALSE ]
    /\ UNCHANGED <<pc, uptime, synced, settings, sensor, pump, outbox, inbox, web, pass, attempts,
                   beatAt, debounce, rssi>>

LegacyNext ==
    \/ LegacyLoop
    \/ LegacyReconnect
    \/ LegacyClientLoop
    \/ LegacyPumpLogic
    \/ LegacyNetworkDrop

SpecLegacy == LegacyInit /\ [][LegacyNext]_vars


(***************************************************************************)
(* Properties                                                              *)
(***************************************************************************)
\* the step in which pumpController.loop() runs
TickStep == pc = "pump" /\ pc' = "mqtt"

\* the automatic rules of section 4.2: high active -> OFF, both inactive -> ON,
\* low active and high inactive -> as before
AutoRule(low, high, wasOn) == IF high THEN FALSE ELSE IF ~low THEN TRUE ELSE wasOn

\* C1: in automatic mode, a tick that samples the high sensor active leaves the
\* pump OFF, whatever the pump state was and whatever the low sensor reads.
C1_HighForcesOff ==
    [][ (TickStep /\ ~pump.overrideMode /\ sensor'.highSensorState)
          => ~pump'.pumpState ]_vars

\* C1 witness: an automatic tick sampled high active with low inactive and
\* switched a running pump off.
C1_Witness ==
    /\ pc = "mqtt" /\ ~pump.overrideMode /\ pass.samples = 1
    /\ sensor.highSensorState /\ ~sensor.lowSensorState
    /\ pass.transitions = 1 /\ ~pump.pumpState

\* C2: in automatic mode, a tick that samples both sensors inactive leaves the
\* pump ON, whatever the pump state was.
C2_EmptyForcesOn ==
    [][ (TickStep /\ ~pump.overrideMode
           /\ ~sensor'.highSensorState /\ ~sensor'.lowSensorState)
          => pump'.pumpState ]_vars

\* C2 witness: an automatic tick sampled both sensors inactive and started the pump.
C2_Witness ==
    /\ pc = "mqtt" /\ ~pump.overrideMode /\ pass.samples = 1
    /\ ~sensor.highSensorState /\ ~sensor.lowSensorState
    /\ pass.transitions = 1 /\ pump.pumpState

\* C3: in automatic mode, a tick in the hysteresis band (low active, high
\* inactive) leaves isOn as it was, ON or OFF; by induction for any number of
\* consecutive such ticks.
C3_BandKeepsState ==
    [][ (TickStep /\ ~pump.overrideMode
           /\ sensor'.lowSensorState /\ ~sensor'.highSensorState)
          => pump'.pumpState = pump.pumpState ]_vars

\* C3 witness: a tick in the band left running a pump that was started in an
\* earlier pass.
C3_Witness ==
    /\ pc = "mqtt" /\ ~pump.overrideMode /\ pass.samples = 1
    /\ sensor.lowSensorState /\ ~sensor.highSensorState
    /\ pump.pumpState /\ pass.transitions = 0
    /\ pump.pumpLastOnAt # millis(uptime)

\* C4: with override enabled, every tick leaves isOn equal to the override
\* target, whatever the sensors hold: the first tick after setOverrideMode(true,
\* target) and every later one until setOverrideMode is called again.
C4_OverrideForcesTarget ==
    [][ (TickStep /\ pump.overrideMode) => pump'.pumpState = pump.overrideState ]_vars

\* C4 witness: a tick under override with target ON started the pump although
\* the high sensor is held active.
C4_Witness ==
    /\ pc = "mqtt" /\ pump.overrideMode /\ pump.overrideState
    /\ sensor.highSensorState
    /\ pass.transitions = 1 /\ pump.pumpState

\* C5: with override disabled, a tick resamples the sensors and sets isOn by
\* the automatic rules on the fresh samples and the previous isOn alone; the
\* override target left behind by setOverrideMode(false, _) plays no part.
C5_DisabledOverrideIsAutomatic ==
    [][ (TickStep /\ ~pump.overrideMode)
          => /\ pass'.samples = pass.samples + 1
             /\ pump'.pumpState = AutoRule(sensor'.lowSensorState,
                                           sensor'.highSensorState, pump.pumpState) ]_vars

\* C5 witness: override was disabled by a command that still carried target ON,
\* and the next tick sampled high active and stopped the pump.
C5_Witness ==
    /\ pc = "mqtt" /\ ~pump.overrideMode /\ pump.overrideState
    /\ pass.samples = 1 /\ sensor.highSensorState
    /\ pass.transitions = 1 /\ ~pump.pumpState

\* C6: override mode and override target change only in a step that calls
\* setOverrideMode: mqttClient.loop() invoking the command callback, or
\* webServer.loop() answering a /pump action with the redirect; a restart
\* begins a new process.  No tick, publish, heartbeat, connect or connection
\* loss changes them.
C6_OverridePersists ==
    [][ (pump'.overrideMode # pump.overrideMode \/ pump'.overrideState # pump.overrideState)
          => \/ pc = "mqtt" /\ pass'.callbacks = pass.callbacks + 1
             \/ pc = "web" /\ web' = 303
             \/ pc = "web" /\ pc' = "system" ]_vars

\* C6 witness: override with target ON, enabled in an earlier pass, is still in
\* force after the tick of this pass reached the target and mqttClient.loop()
\* published without delivering a command.
C6_Witness ==
    /\ pc = "web" /\ pump.overrideMode /\ pump.overrideState
    /\ pass.callbacks = 0 /\ pass.samples = 0
    /\ pass.transitions = 1 /\ pump.pumpState
    /\ outbox # << >>

\* C7: isOn changes at most once in one pass of loop().
C7_OneTransitionPerPass == pass.transitions <= 1

\* C7 witness: a pass with a transition in which an MQTT command and a web
\* command were both applied.
C7_Witness ==
    /\ pc = "publish" /\ pass.transitions = 1
    /\ pass.callbacks = 1 /\ web = 303

\* C8: isOn and the relay output change only in the step that runs
\* PumpController::loop(); mqttClient.loop() (connect, command callback,
\* heartbeat), the web handlers and the end-of-pass publishes leave them
\* alone.  A restart begins a new process.
C8_OnlyTickSwitches ==
    [][ (pump'.pumpState # pump.pumpState \/ pump'.relayPin # pump.relayPin)
          => (TickStep \/ (pc = "web" /\ pc' = "system")) ]_vars

\* C8 witness: an MQTT command and a web command were applied in this pass,
\* the override target they left is the opposite of the pump state, and the
\* pump state is still the one the tick left.
C8_Witness ==
    /\ pc = "publish" /\ pass.callbacks = 1 /\ web = 303
    /\ pump.overrideMode /\ pump.overrideState # pump.pumpState
    /\ pass.transitions = 0

\* C9: in every state the relay output level equals isOn.
C9_RelayFollowsPump == pump.relayPin = pump.pumpState

\* C9 witness: the pump was started, stopped and stopped is what the relay shows.
C9_Witness ==
    /\ ~pump.pumpState /\ ~pump.relayPin
    /\ pump.pumpLastOnAt > 0 /\ pump.pumpLastOffAt > 0

\* C10: the pump "changed" flag is per pass: at the end of a pass in which no
\* transition occurred hasPumpStateChanged() is false, so no change-driven
\* pump status is published.
C10_ChangedFlagPerPass ==
    (pc = "publish" /\ pass.transitions = 0) => ~hasPumpStateChanged(pump)

\* a key of a published JSON document
HasKey(doc, key) == \E i \in 1..Len(doc) : doc[i][1] = key

\* the pump status documents the phase that ran last handed to the broker
PumpStatusSent == { outbox[i].payload : i \in { j \in 1..Len(outbox) : outbox[j].topic = MQTT_PUMP_TOPIC } }

\* C11: an OFF transition at counter time T2 after an ON transition recorded at
\* counter time T1, with 0 < T1 < T2, stores T2 - T1 milliseconds as the last
\* run duration.
C11_DurationIsOffMinusOn ==
    [][ (TickStep /\ pump.pumpState /\ ~pump'.pumpState
           /\ pump.pumpLastOnAt > 0 /\ millis(uptime) > pump.pumpLastOnAt)
          => /\ pump'.pumpLastOffAt = millis(uptime)
             /\ pump'.pumpLastOnAt = pump.pumpLastOnAt
             /\ pump'.lastPumpDuration = millis(uptime) - pump.pumpLastOnAt ]_vars

\* C11 witness: the pump started at 3000 ms and was stopped by the tick of
\* this pass at 9000 ms; 6000 ms are stored.
C11_Witness ==
    /\ pc = "mqtt" /\ pass.transitions = 1 /\ ~pump.pumpState
    /\ pump.pumpLastOnAt = 3000 /\ pump.pumpLastOffAt = 9000
    /\ pump.lastPumpDuration = 6000

\* C12: after an OFF transition that has no valid earlier ON time (none
\* recorded, or the counter wrapped so that the OFF time is not later than the
\* ON time) no published pump status carries last_duration_ms or
\* last_duration_seconds.
C12_InvalidRunReportsNoDuration ==
    (/\ ~pump.pumpState /\ pump.pumpLastOffAt > 0
     /\ (pump.pumpLastOnAt = 0 \/ pump.pumpLastOffAt <= pump.pumpLastOnAt))
      => \A doc \in PumpStatusSent :
            ~HasKey(doc, "last_duration_ms") /\ ~HasKey(doc, "last_duration_seconds")

\* the value a published JSON document holds under a key
ValueOf(doc, key) == doc[CHOOSE i \in 1..Len(doc) : doc[i][1] = key][2]

\* the stored epochs are absent (0) or synchronized readings, and a published
\* pump status carries last_on (last_off) exactly when the stored epoch is a
\* synchronized reading, formatted from it
EpochFieldsMatch ==
    /\ pump.pumpLastOnEpoch = 0 \/ pump.pumpLastOnEpoch > EpochThreshold
    /\ pump.pumpLastOffEpoch = 0 \/ pump.pumpLastOffEpoch > EpochThreshold
    /\ \A doc \in PumpStatusSent :
          /\ HasKey(doc, "last_on") <=> pump.pumpLastOnEpoch > EpochThreshold
          /\ HasKey(doc, "last_on") => ValueOf(doc, "last_on") = formatISO8601(pump.pumpLastOnEpoch)
          /\ HasKey(doc, "last_off") <=> pump.pumpLastOffEpoch > EpochThreshold
          /\ HasKey(doc, "last_off") => ValueOf(doc, "last_off") = formatISO8601(pump.pumpLastOffEpoch)

\* C13: a stored epoch changes only in a tick that switches the pump while the
\* clock reads above 1000000000 (a restart clears it), and it becomes that
\* reading; a published pump status carries last_on / last_off exactly when
\* the stored epoch is above the threshold, so a transition made with an
\* unsynchronized clock is published without the field.
C13_UnsyncedEpochAbsent ==
    [][ /\ pump'.pumpLastOnEpoch # pump.pumpLastOnEpoch
             => \/ pc = "web" /\ pc' = "system"
                \/ /\ TickStep /\ ~pump.pumpState /\ pump'.pumpState
                   /\ timeNow(uptime, synced) > EpochThreshold
                   /\ pump'.pumpLastOnEpoch = timeNow(uptime, synced)
        /\ pump'.pumpLastOffEpoch # pump.pumpLastOffEpoch
             => \/ pc = "web" /\ pc' = "system"
                \/ /\ TickStep /\ pump.pumpState /\ ~pump'.pumpState
                   /\ timeNow(uptime, synced) > EpochThreshold
                   /\ pump'.pumpLastOffEpoch = timeNow(uptime, synced)
        /\ EpochFieldsMatch' ]_vars

\* C13 witness: the pump was started before the clock was set and stopped
\* after; the published pump status carries last_off and no last_on.
C13_Witness ==
    /\ pump.pumpLastOnAt > 0 /\ pump.pumpLastOnEpoch = 0
    /\ pump.pumpLastOffEpoch > EpochThreshold
    /\ \E doc \in PumpStatusSent : HasKey(doc, "last_off") /\ ~HasKey(doc, "last_on")

\* the four timestamps of the pump controller
Stamps(p) == << p.pumpLastOnAt, p.pumpLastOffAt, p.pumpLastOnEpoch, p.pumpLastOffEpoch >>

\* C14: the counter and epoch timestamps of last ON / last OFF change only in
\* a step in which isOn changes (a restart begins a new process); no other
\* public operation of PumpController writes them.
C14_StampsOnlyAtTransition ==
    [][ Stamps(pump') # Stamps(pump)
          => (pump'.pumpState # pump.pumpState \/ (pc = "web" /\ pc' = "system")) ]_vars

\* the step in which mqttClient.loop() runs
MqttStep == pc = "mqtt" /\ pc' = "web"

\* a delivered message that is no command: the payload does not parse, the
\* topic is not the command topic, or the document has no "override" key
Malformed(msg) ==
    /\ msg # NoMessage
    /\ ~msg.parses \/ msg.topic # MQTT_COMMAND_TOPIC \/ ~msg.hasOverride

\* C15: mqttClient.loop() delivering a malformed message leaves every field of
\* the pump controller (override mode, override target, isOn, relay,
\* timestamps, duration) unchanged and does not invoke the command callback.
C15_MalformedDropped ==
    [][ (MqttStep /\ Malformed(inbox'))
          => (pump' = pump /\ pass'.callbacks = pass.callbacks) ]_vars

\* C15 witness: a well-formed override command arrived on another topic
\* while the controller was in automatic mode, and it still is.
C15_Witness ==
    /\ pc = "web" /\ inbox.topic = OTHER_TOPIC /\ inbox.parses
    /\ inbox.hasOverride /\ inbox.override
    /\ ~pump.overrideMode /\ pass.callbacks = 0

\* a command on the command topic
Command(override, state) ==
    [ topic |-> MQTT_COMMAND_TOPIC, parses |-> TRUE, hasOverride |-> TRUE,
      override |-> override, state |-> state ]

\* two pump controllers that agree, or have override disabled and agree on
\* everything but the override target
SameButTarget(p, q) ==
    \/ p = q
    \/ /\ ~p.overrideMode /\ ~q.overrideMode
       /\ [ p EXCEPT !.overrideState = FALSE ] = [ q EXCEPT !.overrideState = FALSE ]

\* the pump controller of the run whose override=false commands carried
\* another state token
Twin(p) == IF p.overrideMode THEN p ELSE [ p EXCEPT !.overrideState = ~@ ]

\* C16: commands with override=false that differ only in the state token leave
\* controllers that differ at most in the override target, and from two such
\* controllers every operation of the loop gives the same isOn, relay level,
\* sensor state, HTTP answer and published payloads, and again controllers
\* that differ at most in the override target: with override disabled the
\* target is never consulted.
C16_StateTokenIgnored ==
    LET q == Twin(pump)
    IN  /\ pc = "mqtt" =>
            \A t1 \in StateTokens, t2 \in StateTokens :
              SameButTarget(mqttCallback(pump, Command(FALSE, t1)).pump,
                            mqttCallback(pump, Command(FALSE, t2)).pump)
        /\ (pc = "pump" /\ q # pump) =>
              \A lowReads \in PinReads, highReads \in PinReads :
                 LET a == pumpLoop(pump, sensor, lowReads, highReads,
                                   timeNow(uptime, synced), millis(uptime))
                     b == pumpLoop(q, sensor, lowReads, highReads,
                                   timeNow(uptime, synced), millis(uptime))
                 IN  /\ SameButTarget(a.pump, b.pump)
                     /\ a.pump.pumpState = b.pump.pumpState
                     /\ a.pump.relayPin = b.pump.relayPin
                     /\ a.sensor = b.sensor
        /\ (pc = "mqtt" /\ q # pump) =>
              \A ok \in BOOLEAN, connectDelay \in ConnectDelays, rs \in RssiValues :
                 LET a == mqttReconnect(settings, mqtt, sensor, pump, uptime, rs, ok, connectDelay)
                     b == mqttReconnect(settings, mqtt, sensor, q, uptime, rs, ok, connectDelay)
                 IN  /\ a = b
                     /\ \A msg \in InboundMessages \cup {NoMessage} :
                           LET c == mqttService(settings, a, sensor, pump, rs, msg)
                               d == mqttService(settings, b, sensor, q, rs, msg)
                           IN  /\ SameButTarget(c.pump, d.pump)
                               /\ c.out = d.out /\ c.mqtt = d.mqtt /\ c.called = d.called
        /\ (pc = "web" /\ q # pump) =>
              \A req \in WebRequests :
                 /\ SameButTarget(handleClient(pump, req).pump, handleClient(q, req).pump)
                 /\ handleClient(pump, req).status = handleClient(q, req).status
        /\ (pc = "publish" /\ q # pump) =>
              /\ hasPumpStateChanged(pump) = hasPumpStateChanged(q)
              /\ publishPumpStatus(mqtt.connected, pump) = publishPumpStatus(mqtt.connected, q)
              /\ \A rs \in RssiValues :
                    publishState(mqtt.connected, sensor, pump, rs)
                      = publishState(mqtt.connected, sensor, q, rs)

\* C16 witness: a command with override=false and state "ON" was delivered;
\* the target it left is ON, the mode is automatic, and the state published
\* in the same call carries no override_state.
C16_Witness ==
    /\ pc = "web" /\ inbox = Command(FALSE, "ON")
    /\ ~pump.overrideMode /\ pump.overrideState
    /\ \E i \in 1..Len(outbox) :
          /\ outbox[i].topic = MQTT_STATE_TOPIC
          /\ ~HasKey(outbox[i].payload, "override_state")

\* a step of mqttClient.loop() that made a connection attempt
AttemptStep == MqttStep /\ Len(attempts') = Len(attempts) + 1

\* when the latest connection attempt returned (0: none yet, the initial value
\* of lastConnectAttempt)
LastAttemptEnd == IF attempts = << >> THEN 0 ELSE attempts[Len(attempts)]

\* C17: a connection attempt made by MqttHandler::loop starts more than 5000 ms
\* of uptime after the previous attempt returned (and so after it started),
\* across the wrap of millis() too; attempts are made by MqttHandler::loop only.
C17_AttemptsRateLimited ==
    [][ /\ AttemptStep => uptime - LastAttemptEnd > ReconnectInterval
        /\ attempts' # attempts => (AttemptStep \/ (pc = "web" /\ pc' = "system")) ]_vars

\* C17 witness: two attempts, the second after the counter wrapped.
C17_Witness ==
    /\ Len(attempts) = 2 /\ attempts[1] < MillisMod /\ attempts[2] > MillisMod
    /\ pass.ticks = 1

\* C18: with messaging configured and the broker unreachable, after any number
\* n of failed attempts a further attempt is made, as long as the explored
\* uptime leaves room for the throttle to expire.
C18_RetriesForever ==
    \A n \in 0..(MaxUptime \div ReconnectInterval) :
       (/\ Len(attempts) = n /\ settings.mqttConfigured /\ ~mqtt.connected
        /\ LastAttemptEnd + RetryHorizon <= MaxUptime)
         ~> (Len(attempts) > n)

\* C18 witness: two attempts have failed and the pump was switched by the tick
\* of the pass of the second.
C18_Witness ==
    /\ Len(attempts) = 2 /\ ~mqtt.connected /\ settings.mqttConfigured
    /\ pass.transitions = 1

\* isOn after a tick, from the controller before it and the sensors it holds
\* after it: the override target under override, the automatic rules otherwise
Decide(p, s) ==
    IF p.overrideMode THEN p.overrideState
    ELSE AutoRule(s.lowSensorState, s.highSensorState, p.pumpState)

\* C19: in every pass, whether messaging is not configured, the broker is
\* unreachable or connected, PumpController::loop() has run exactly once
\* when mqttClient.loop() is reached, isOn after it depends on the controller
\* and the sensors alone, and mqttClient.loop() that delivers no command
\* leaves the pump controller as it was.
C19_PumpIndependentOfMessaging ==
    [][ /\ TickStep => /\ pass'.ticks = pass.ticks + 1
                       /\ pump'.pumpState = Decide(pump, sensor')
        /\ pc' \in {"mqtt", "web", "publish"} => pass'.ticks = 1
        /\ (MqttStep /\ inbox' = NoMessage) => pump' = pump ]_vars

\* C19 witness: one connection attempt has failed, the broker is still not
\* connected, and the tick of this pass started the pump.
C19_Witness ==
    /\ pc = "publish" /\ settings.mqttConfigured /\ ~mqtt.connected
    /\ Len(attempts) = 1 /\ pass.ticks = 1
    /\ pass.transitions = 1 /\ pump.pumpState

\* what connect() hands to the broker on success, in order: the subscription,
\* one config per discovery entity, the state, the pump status
ConnectPreamble(out) ==
    LET n == Len(DiscoveryEntities)
    IN  /\ Len(out) >= n + 3
        /\ out[1] = Subscribe(MQTT_COMMAND_TOPIC)
        /\ \A i \in 1..n : out[1 + i].op = "publish" /\ out[1 + i].topic = DiscoveryEntities[i]
        /\ out[n + 2].op = "publish" /\ out[n + 2].topic = MQTT_STATE_TOPIC
        /\ out[n + 3].op = "publish" /\ out[n + 3].topic = MQTT_PUMP_TOPIC

\* C20: a step that establishes the broker connection hands over, in this
\* order, the subscription to the command topic, the discovery configs, the
\* state and the pump status; and a phase of loop() hands over a publish only
\* on a connection that existed before it (and so began with the subscription) or
\* after the subscription of the connection it establishes.
C20_ConnectSubscribesThenPublishes ==
    [][ /\ (~mqtt.connected /\ mqtt'.connected) => (MqttStep /\ ConnectPreamble(outbox'))
        /\ (pc' # pc /\ \E i \in 1..Len(outbox') : outbox'[i].op = "publish")
              => (mqtt.connected \/ outbox'[1] = Subscribe(MQTT_COMMAND_TOPIC)) ]_vars

\* C20 witness: the second connection attempt succeeded and handed over
\* exactly the subscription, the discovery configs, the state and the pump
\* status of a stopped pump.
C20_Witness ==
    /\ pc = "web" /\ mqtt.connected /\ Len(attempts) = 2
    /\ ConnectPreamble(outbox) /\ Len(outbox) = Len(DiscoveryEntities) + 3
    /\ pump.pumpLastOffAt > 0 /\ ~pump.pumpState

\* C21: mqttClient.loop() that finds the client connected more than 5000 ms of
\* uptime after the latest periodic state update (after boot if there was
\* none) publishes the state, whatever the sensors and the pump did; when the
\* client was connected before the call the publish is the periodic update
\* itself.  The periodic update is made by mqttClient.loop() only, connected,
\* and never sooner than 5000 ms after the one before.
C21_HeartbeatWhenDue ==
    [][ /\ (MqttStep /\ settings.mqttConfigured /\ mqtt'.connected
               /\ uptime' - beatAt > statusUpdateInterval)
              => StatePublished(outbox')
        /\ (MqttStep /\ settings.mqttConfigured /\ mqtt.connected
               /\ uptime' - beatAt > statusUpdateInterval)
              => beatAt' = uptime'
        /\ beatAt' # beatAt
              => \/ pc = "web" /\ pc' = "system"
                 \/ /\ MqttStep /\ mqtt'.connected /\ beatAt' = uptime'
                    /\ uptime' - beatAt > statusUpdateInterval
                    /\ StatePublished(outbox') ]_vars

\* C21 witness: the client connected at 6000 ms and has stayed connected; at
\* 12000 ms, with the pump never switched, the sensors as they were and no
\* message delivered, mqttClient.loop() published the state and nothing else.
C21_Witness ==
    /\ pc = "web" /\ mqtt.connected /\ attempts = << 6000 >>
    /\ uptime = 12000 /\ beatAt = uptime
    /\ Len(outbox) = 1 /\ StatePublished(outbox)
    /\ inbox = NoMessage /\ pass.transitions = 0
    /\ pump.pumpLastOnAt = 0 /\ pump.pumpLastOffAt = 0
    /\ ~hasLowSensorChanged(sensor) /\ ~hasHighSensorChanged(sensor)

\* the step that ends a pass with the change-driven publishes
PublishStep == pc = "publish" /\ pc' = "system"

\* a pump status is among what was handed to the broker
PumpStatusPublished(out) ==
    \E i \in 1..Len(out) : out[i].op = "publish" /\ out[i].topic = MQTT_PUMP_TOPIC

\* C22: a pass in which isOn changed ends, if the client is connected, with a
\* pump status publish, and a pass in which a debounced sensor value changed
\* ends, if the client is connected, with a state publish, whether or not
\* the periodic update was made in the same pass.
C22_ChangePublishedSamePass ==
    [][ (PublishStep /\ mqtt.connected)
          => /\ pass.transitions > 0 => PumpStatusPublished(outbox')
             /\ pass.edges > 0 => StatePublished(outbox') ]_vars

\* C22 witness: in the pass of a periodic update the low sensor fell back to
\* inactive and the tick started the pump; the pass ended with the pump
\* status followed by the state.
C22_Witness ==
    /\ pc = "system" /\ mqtt.connected /\ beatAt = uptime /\ uptime > 0
    /\ pass.transitions = 1 /\ pass.edges = 1
    /\ pump.pumpState /\ ~sensor.lowSensorState
    /\ Len(outbox) = 2 /\ outbox[1].topic = MQTT_PUMP_TOPIC /\ outbox[2].topic = MQTT_STATE_TOPIC

\* a pump status document reports the values the pump controller p holds
Reports(doc, p) ==
    /\ ValueOf(doc, "state") = (IF p.pumpState THEN "ON" ELSE "OFF")
    /\ ValueOf(doc, "runtime_last_on") = p.pumpLastOnAt
    /\ ValueOf(doc, "runtime_last_off") = p.pumpLastOffAt
    /\ HasKey(doc, "last_on") => ValueOf(doc, "last_on") = formatISO8601(p.pumpLastOnEpoch)
    /\ HasKey(doc, "last_off") => ValueOf(doc, "last_off") = formatISO8601(p.pumpLastOffEpoch)
    /\ HasKey(doc, "last_duration_ms") => ValueOf(doc, "last_duration_ms") = p.lastPumpDuration

\* what a pump status reports of the pump controller
Snapshot(p) ==
    << p.pumpState, p.pumpLastOnAt, p.pumpLastOffAt, p.pumpLastOnEpoch, p.pumpLastOffEpoch,
       p.lastPumpDuration >>

\* C23: the tick that switches the pump writes the new isOn and the counter
\* time of the switch; nothing between the tick and the end of the pass
\* changes what a pump status reports; and every pump status handed to the
\* broker, by the change-driven publish or by connect(), reports the values
\* the controller holds then, which are those after the transition.
C23_PublishAfterTransition ==
    [][ /\ (TickStep /\ pump'.pumpState # pump.pumpState)
              => /\ pump'.pumpState => pump'.pumpLastOnAt = millis(uptime)
                 /\ ~pump'.pumpState => pump'.pumpLastOffAt = millis(uptime)
                 /\ Snapshot(pump') # Snapshot(pump)
        /\ (MqttStep \/ (pc = "web" /\ pc' = "publish") \/ PublishStep)
              => Snapshot(pump') = Snapshot(pump)
        /\ (PublishStep /\ pass.transitions > 0 /\ mqtt.connected)
              => PumpStatusPublished(outbox')
        /\ \A i \in 1..Len(outbox') :
              (pc' # pc /\ outbox'[i].topic = MQTT_PUMP_TOPIC) => Reports(outbox'[i].payload, pump') ]_vars

\* C23 witness: the pump ran from 3000 ms to 9000 ms; the pass of the stop
\* ended with a pump status that reports OFF, both counter times and the
\* 6000 ms of the run.
C23_Witness ==
    /\ pc = "system" /\ pass.transitions = 1 /\ ~pump.pumpState
    /\ \E doc \in PumpStatusSent :
          /\ ValueOf(doc, "state") = "OFF"
          /\ ValueOf(doc, "runtime_last_on") = 3000
          /\ ValueOf(doc, "runtime_last_off") = 9000
          /\ HasKey(doc, "last_duration_ms") /\ ValueOf(doc, "last_duration_ms") = 6000

\* the three values of a state payload, as a subscriber decodes them
Decoded(doc) ==
    LET back == deserializeJson(serializeJson(doc))
    IN  << ValueOf(back, "contact"), ValueOf(back, "water_leak"), ValueOf(back, "control_mode") >>

\* C24: for every combination of low sensor, high sensor, override mode and
\* override target, and every signal strength, the serialised state document
\* decodes to contact = low sensor, water_leak = high sensor and control_mode
\* = "manual" exactly under override; every state payload handed to the broker
\* decodes to the values of its document, and the one of the change-driven
\* publish to the values the reader and the controller hold.
C24_StateRoundTrip ==
    /\ pc = "mqtt" =>
          \A low \in BOOLEAN, high \in BOOLEAN, override \in BOOLEAN, target \in BOOLEAN,
             rs \in RssiValues :
             LET s == [ sensor EXCEPT !.lowSensorState = low, !.highSensorState = high ]
                 p == [ pump EXCEPT !.overrideMode = override, !.overrideState = target ]
             IN  Decoded(stateDoc(s, p, rs))
                   = << low, high, IF override THEN "manual" ELSE "automatic" >>
    /\ \A i \in 1..Len(outbox) :
          outbox[i].topic = MQTT_STATE_TOPIC
            => /\ deserializeJson(serializeJson(outbox[i].payload)) = outbox[i].payload
               /\ pc = "system"
                    => Decoded(outbox[i].payload)
                         = << sensor.lowSensorState, sensor.highSensorState,
                              IF pump.overrideMode THEN "manual" ELSE "automatic" >>

\* C24 witness: the pass ended with a state payload published with the low
\* sensor active, the high sensor inactive and override enabled.
C24_Witness ==
    /\ pc = "system" /\ sensor.lowSensorState /\ ~sensor.highSensorState /\ pump.overrideMode
    /\ \E i \in 1..Len(outbox) :
          /\ outbox[i].topic = MQTT_STATE_TOPIC
          /\ Decoded(outbox[i].payload) = << TRUE, FALSE, "manual" >>

\* C25: every tick, under override as well as in automatic mode, samples the
\* sensors once before isOn is decided.
C25_SampledEveryPass ==
    [][ TickStep => pass'.samples = pass.samples + 1 ]_vars

\* the number of reads of a sequence that show the level v
Votes(reads, v) == Cardinality({ i \in 1..Len(reads) : reads[i] = v })

\* C26: a call of readSensor returns after exactly 5 reads of the pin, and
\* returns true if and only if at least 3 of them read active, for every
\* sequence of 5 levels; 4 or 5 agreeing reads decide the result whatever the
\* remaining read shows.  The sensor reader's vote is that function.
C26_MajorityOfFive ==
    /\ debounce.i <= 5 /\ debounce.activeCount = Votes(SubSeq(debounce.reads, 1, debounce.i), TRUE)
    /\ debounce.returned
          => /\ debounce.i = 5 /\ Len(debounce.reads) = 5
             /\ debounce.result <=> Votes(debounce.reads, TRUE) >= 3
             /\ debounce.result = readSensor(debounce.reads)
             /\ \A v \in BOOLEAN : Votes(debounce.reads, v) >= 4 => debounce.result = v

\* C26 witness: four inactive reads and one active read in the middle were
\* voted inactive.
C26_Witness ==
    /\ debounce.returned /\ ~debounce.result
    /\ debounce.reads = << FALSE, FALSE, TRUE, FALSE, FALSE >>

\* a call of PumpController::loop in automatic mode, which calls update()
ApiSampleStep == pc = "api" /\ uptime' # uptime /\ ~pump.overrideMode

\* a call of resetChangeFlags()
ApiResetStep == pc = "api" /\ uptime' = uptime /\ sensor' # sensor

\* C27: update() leaves as previous values the values held before it, so
\* after it hasLowSensorChanged() / hasHighSensorChanged() is true exactly
\* when the new debounced value differs from the one held before the update,
\* whatever the flags were; after begin() and after resetChangeFlags() both
\* flags are false, and resetChangeFlags() keeps the current values.
C27_ChangeFlagsAreEdges ==
    /\ [](uptime = 0 => (~hasLowSensorChanged(sensor) /\ ~hasHighSensorChanged(sensor)))
    /\ [][ /\ ApiSampleStep
                 => /\ sensor'.lastLowSensorState = sensor.lowSensorState
                    /\ sensor'.lastHighSensorState = sensor.highSensorState
                    /\ hasLowSensorChanged(sensor') <=> sensor'.lowSensorState # sensor.lowSensorState
                    /\ hasHighSensorChanged(sensor') <=> sensor'.highSensorState # sensor.highSensorState
           /\ ApiResetStep
                 => /\ ~hasLowSensorChanged(sensor') /\ ~hasHighSensorChanged(sensor')
                    /\ sensor'.lowSensorState = sensor.lowSensorState
                    /\ sensor'.highSensorState = sensor.highSensorState ]_vars

\* C27 witness: the pump was started by an update that sampled both sensors
\* inactive and stopped by a later one that sampled both active; after an
\* update that sampled a new low value and the same high value only the low
\* flag is raised.
C27_Witness ==
    /\ pc = "api" /\ uptime = 9000 /\ ~pump.overrideMode
    /\ pump.pumpLastOnAt = 3000 /\ pump.pumpLastOffAt = 6000
    /\ hasLowSensorChanged(sensor) /\ ~hasHighSensorChanged(sensor)
    /\ ~sensor.lowSensorState /\ sensor.highSensorState

\* C28: the linkquality of a published state is an integer in 0..255; it is 0
\* for a reading of -100 dBm or less, 255 for -50 dBm or more, and no smaller
\* reading maps to a greater value.
C28_LinkQualityClamped ==
    \A i \in 1..Len(outbox) :
       outbox[i].topic = MQTT_STATE_TOPIC
         => LET q == ValueOf(outbox[i].payload, "linkquality")
            IN  /\ q \in 0..255
                /\ rssi <= -100 => q = 0
                /\ rssi >= -50 => q = 255
                /\ \A r \in RssiRange : r <= rssi => linkQuality(r) <= q

\* C28 witness: a state was published at -128 dBm with linkquality 0.
C28_Witness ==
    /\ rssi = -128
    /\ \E i \in 1..Len(outbox) :
          outbox[i].topic = MQTT_STATE_TOPIC /\ ValueOf(outbox[i].payload, "linkquality") = 0

\* the pump is off and no transition has been recorded
Fresh(p) == Snapshot(p) = << FALSE, 0, 0, 0, 0, 0 >>

\* C29: at process start (boot and restart) isOn, override mode and override
\* target are false, the four timestamps and the duration are 0 and the
\* relay is driven OFF; a step without a transition leaves the pump off with
\* all of them 0; and as long as that is so every published pump status
\* reports state OFF, no last_on, no last_off and no duration.
C29_StartsAllZero ==
    /\ [](uptime = 0 =>
            /\ ~pump.pumpState /\ ~pump.overrideMode /\ ~pump.overrideState
            /\ pump.pumpLastOnAt = 0 /\ pump.pumpLastOffAt = 0
            /\ pump.pumpLastOnEpoch = 0 /\ pump.pumpLastOffEpoch = 0
            /\ pump.lastPumpDuration = 0 /\ ~pump.relayPin)
    /\ [][ (Fresh(pump) /\ pump'.pumpState = pump.pumpState) => Fresh(pump') ]_vars
    /\ [](Fresh(pump) =>
            \A doc \in PumpStatusSent :
               /\ ValueOf(doc, "state") = "OFF"
               /\ ~HasKey(doc, "last_on") /\ ~HasKey(doc, "last_off")
               /\ ~HasKey(doc, "last_duration_ms") /\ ~HasKey(doc, "last_duration_seconds"))

\* C29 witness: the clock is set, the pass has ticked without a transition,
\* and the connection made in it published the pump status of a pump that
\* never ran.
C29_Witness ==
    /\ pc = "web" /\ synced /\ uptime >= 9000 /\ pass.ticks = 1 /\ Fresh(pump)
    /\ \E doc \in PumpStatusSent : ValueOf(doc, "state") = "OFF" /\ ~HasKey(doc, "last_off")

\* the step in which webServer.loop() runs
WebStep == pc = "web" /\ pc' = "publish"

\* the pump controller p with override mode and target as given, the rest as it was
WithOverride(p, enabled, target) ==
    [ p EXCEPT !.overrideMode = enabled, !.overrideState = target ]

\* the documented answer of /pump to an action
Expected(p, action) ==
    IF action = "on" THEN [ pump |-> WithOverride(p, TRUE, TRUE), status |-> 303 ]
    ELSE IF action = "off" THEN [ pump |-> WithOverride(p, TRUE, FALSE), status |-> 303 ]
    ELSE IF action = "auto" THEN [ pump |-> WithOverride(p, FALSE, FALSE), status |-> 303 ]
    ELSE [ pump |-> p, status |-> 400 ]

\* C30: wherever webServer.loop() runs, /pump answers action "on" by override
\* enabled with target ON, "off" by override enabled with target OFF and
\* "auto" by override disabled with target OFF, each with the redirect, and a
\* missing or any other action by 400 with the pump controller untouched;
\* and the step itself changes the pump controller only with the redirect,
\* to one of the three, and never isOn.
C30_PumpActionMapping ==
    [][ WebStep
          => /\ \A action \in WebActions :
                   handleClient(pump, [ path |-> "/pump", action |-> action ])
                     = Expected(pump, action)
             /\ web' = 400 => pump' = pump
             /\ web' = 303 => \E action \in {"on", "off", "auto"} :
                                 pump' = Expected(pump, action).pump
             /\ pump' # pump => web' = 303
             /\ pump'.pumpState = pump.pumpState ]_vars

\* C30 witness: under override with target ON and the pump running, a /pump
\* request was answered with 400; override, target and the pump are as they
\* were.
C30_Witness ==
    /\ pc = "publish" /\ web = 400 /\ pass.callbacks = 0
    /\ pump.overrideMode /\ pump.overrideState /\ pump.pumpState
    /\ pass.transitions = 0


\* a call of the library's loop() (the only step of its caller that lets time pass)
ControllerTick == pc = "controller" /\ uptime' # uptime

\* C31: in the library variant a loop() call in automatic mode turns the pump
\* ON when the low sensor alone is triggered, OFF when the high sensor alone is
\* triggered, and leaves the pump as it was when both sensors or neither are
\* triggered.
C31_LibraryAutomaticRule ==
    [][ (ControllerTick /\ ~pump.overrideMode) =>
            LET low == sensor'.lowSensorState
                high == sensor'.highSensorState
            IN  pump'.pumpState = (IF low /\ ~high THEN TRUE
                                   ELSE IF high /\ ~low THEN FALSE
                                   ELSE pump.pumpState) ]_vars


\* C32: in the legacy sketch pump control does not wait for the broker: with
\* WiFi up and a broker configured, handlePumpLogic() runs between any two
\* connection attempts, that is, at most one attempt has been made since
\* handlePumpLogic() last ran.
C32_LegacyPumpLogicEveryIteration ==
    (settings.wifi /\ ~settings.apMode /\ settings.mqttConfigured) => pass.attempts <= 1


\* the commands that enable override without naming ON: no "state" key, or a
\* value other than the exact string "ON"
OverrideWithoutOn == { Command(TRUE, state) : state \in StateTokens \ {"ON"} }

\* C33: a command on the command topic with override = true and no "state" key,
\* or a "state" other than exactly "ON", enables override with target OFF; a
\* tick that starts in override with target OFF leaves the pump and the relay
\* OFF, whatever the pump was doing and whatever the sensors last showed.
C33_OverrideDefaultsToOff ==
    [][ /\ (MqttStep /\ inbox' \in OverrideWithoutOn) =>
               (pump'.overrideMode /\ ~pump'.overrideState)
        /\ (TickStep /\ pump.overrideMode /\ ~pump.overrideState) =>
               (~pump'.pumpState /\ ~pump'.relayPin) ]_vars

\* the command without "state" has arrived while the pump is running and both
\* sensors are inactive (tank empty): override is enabled with target OFF
C33_Witness ==
    /\ pc = "web" /\ inbox = Command(TRUE, "absent")
    /\ pump.pumpState /\ pump.relayPin
    /\ ~sensor.lowSensorState /\ ~sensor.highSensorState
    /\ pump.overrideMode /\ ~pump.overrideState


\* the latest state document among what was handed to the broker carries the
\* control mode of the pump controller p
ShowsMode(out, p) ==
    \E i \in 1..Len(out) :
       /\ out[i].op = "publish" /\ out[i].topic = MQTT_STATE_TOPIC
       /\ ValueOf(out[i].payload, "control_mode")
             = (IF p.overrideMode THEN "manual" ELSE "automatic")
       /\ \A j \in (i + 1)..Len(out) : out[j].topic # MQTT_STATE_TOPIC

\* C34: a change of override mode publishes nothing by itself: the web handler
\* publishes nothing, the end of a pass without a sensor edge publishes no
\* state (and nothing at all unless a pump change is flagged), and a command
\* that arrives over a standing connection before the periodic update is due
\* publishes no state.  While the connection is up, each mqttClient.loop()
\* either leaves the current control mode on the state topic or finds at most
\* 5000 ms elapsed since the latest periodic update, so the mode is stale for
\* at most 5000 ms plus one loop iteration.
C34_ModeStaleUntilHeartbeat ==
    [][ /\ (WebStep /\ pump'.overrideMode # pump.overrideMode) => outbox' = << >>
        /\ (PublishStep /\ pass.edges = 0)
              => /\ ~StatePublished(outbox')
                 /\ ~hasPumpStateChanged(pump) => outbox' = << >>
        /\ (MqttStep /\ mqtt.connected /\ pump'.overrideMode # pump.overrideMode
               /\ uptime' - beatAt <= statusUpdateInterval)
              => ~StatePublished(outbox')
        /\ (MqttStep /\ settings.mqttConfigured /\ mqtt.connected)
              => \/ ShowsMode(outbox', pump')
                 \/ uptime' - beatAt <= statusUpdateInterval ]_vars

\* connected by the first attempt, at 6000 ms, and still connected at 12000 ms:
\* override is enabled, the pump never ran, no command arrives in this call and
\* the periodic update that is due puts "manual" on the state topic
C34_Witness ==
    /\ pc = "web" /\ inbox = NoMessage /\ uptime = 12000 /\ beatAt = 12000
    /\ attempts = << 6000 >> /\ mqtt.connected
    /\ pump.overrideMode /\ ~pump.pumpState /\ pump.pumpLastOnAt = 0
    /\ pass.edges = 0
    /\ ShowsMode(outbox, pump)


\* what connect() hands to the broker reports the reader s and the pump
\* controller p: the first state document carries the sensor values and the
\* control mode (the override target exactly under override), and a pump
\* status after it carries isOn, the timestamps and the duration
ConnectReports(out, s, p) ==
    \E i \in 1..Len(out), j \in 1..Len(out) :
       /\ i < j
       /\ out[i].op = "publish" /\ out[i].topic = MQTT_STATE_TOPIC
       /\ \A k \in 1..(i - 1) : out[k].topic # MQTT_STATE_TOPIC
       /\ ValueOf(out[i].payload, "contact") = s.lowSensorState
       /\ ValueOf(out[i].payload, "water_leak") = s.highSensorState
       /\ ValueOf(out[i].payload, "control_mode")
             = (IF p.overrideMode THEN "manual" ELSE "automatic")
       /\ HasKey(out[i].payload, "override_state") <=> p.overrideMode
       /\ p.overrideMode => ValueOf(out[i].payload, "override_state") = p.overrideState
       /\ out[j].op = "publish" /\ out[j].topic = MQTT_PUMP_TOPIC
       /\ Reports(out[j].payload, p)

\* C35: while the client is not connected neither mqttClient.loop() nor the
\* publishes that end a pass hand anything to the broker or change the pump
\* controller or the adapter's time of the last periodic update; the call that
\* connects publishes a state document and a pump status that report the
\* sensor values, control mode, isOn, timestamps and duration held at that
\* moment, whatever happened while the client was disconnected.
C35_ConnectPublishesCurrentValues ==
    [][ /\ (MqttStep /\ ~mqtt'.connected)
              => /\ outbox' = << >> /\ pump' = pump /\ sensor' = sensor
                 /\ mqtt'.lastStatusUpdate = mqtt.lastStatusUpdate
        /\ (PublishStep /\ ~mqtt.connected)
              => outbox' = << >> /\ pump' = pump /\ mqtt' = mqtt
        /\ (MqttStep /\ ~mqtt.connected /\ mqtt'.connected)
              => ConnectReports(outbox', sensor, pump) ]_vars

\* the pump was switched ON at 3000 ms, before the first connection attempt;
\* the attempt at 6000 ms succeeds and publishes the running pump
C35_Witness ==
    /\ pc = "web" /\ attempts = << 6000 >> /\ mqtt.connected
    /\ pump.pumpState /\ pump.pumpLastOnAt = 3000
    /\ ConnectReports(outbox, sensor, pump)


\* C36: while no broker is configured mqttClient.loop() makes no connection
\* attempt, hands nothing to the broker, never invokes the command callback and
\* leaves the adapter and the clock as they are, in every pass; the publishes
\* that end a pass hand nothing to the broker; and the override mode and target
\* change only in the web phase of a pass.
C36_UnconfiguredMessagingIsInert ==
    [][ ~settings.mqttConfigured =>
          /\ MqttStep => /\ attempts' = attempts /\ outbox' = << >>
                         /\ pass'.callbacks = pass.callbacks
                         /\ mqtt' = mqtt /\ pump' = pump /\ uptime' = uptime
          /\ PublishStep => outbox' = << >>
          /\ (pump'.overrideMode # pump.overrideMode
                \/ pump'.overrideState # pump.overrideState) => pc = "web" ]_vars

\* no broker configured: 6000 ms after boot, when an attempt would be due, none
\* has been made, nothing was published, and override was enabled (by /pump)
C36_Witness ==
    /\ ~settings.mqttConfigured /\ pc = "web" /\ uptime = 6000
    /\ attempts = << >> /\ outbox = << >> /\ ~mqtt.connected
    /\ pump.overrideMode /\ pump.overrideState


\* override mode and target of a pump controller
Override(p) == << p.overrideMode, p.overrideState >>

C38_IdleTickChangesNothing ==
    [][ (TickStep /\ pump'.pumpState = pump.pumpState)
          => /\ pump'.relayPin = pump.relayPin
             /\ pump'.pumpLastOnAt = pump.pumpLastOnAt
             /\ pump'.pumpLastOffAt = pump.pumpLastOffAt
             /\ pump'.pumpLastOnEpoch = pump.pumpLastOnEpoch
             /\ pump'.pumpLastOffEpoch = pump.pumpLastOffEpoch
             /\ pump'.lastPumpDuration = pump.lastPumpDuration ]_vars

\* the pump was switched ON at 3000 ms; the tick at 6000 ms samples the low
\* sensor active and the high sensor inactive and keeps the stamp of 3000 ms
C38_Witness ==
    /\ pc = "mqtt" /\ uptime = 6000 /\ synced
    /\ ~pump.overrideMode /\ pump.pumpState /\ pump.relayPin
    /\ pump.pumpLastOnAt = 3000
    /\ sensor.lowSensorState /\ ~sensor.highSensorState


\* C39: in the library variant hasPumpStateChanged() is false whenever it is
\* called between two calls of loop(), also right after a loop() that
\* switched the pump: loop() copies the pump state into the previous-state
\* field before it returns.
C39_LibraryChangeFlagNeverSeen ==
    pc = "controller" => ~controller_hasPumpStateChanged(pump)

\* the library's loop() has just switched the pump ON, 3000 ms or more after
\* boot, and the previous-state field already holds ON
C39_Witness ==
    /\ pc = "controller" /\ uptime >= 3000
    /\ pump.pumpState /\ pump.relayPin /\ pump.pumpLastOnAt = millis(uptime)
    /\ pump.lastPumpState


\* C40: as long as the millisecond counter has not wrapped since boot, the
\* counter timestamps are ordered by the pump state: while the pump is ON the
\* last-ON time is not before the last-OFF time, and while the pump is OFF
\* after at least one run the last-OFF time is not before the last-ON time.
C40_StampsOrderedByState ==
    uptime < MillisMod =>
       /\ pump.pumpState => pump.pumpLastOnAt >= pump.pumpLastOffAt
       /\ (~pump.pumpState /\ pump.pumpLastOnAt > 0) => pump.pumpLastOffAt >= pump.pumpLastOnAt

\* a second run: ON at 3000 ms, OFF at 6000 ms, ON again at 9000 ms, before the
\* counter wraps
C40_Witness ==
    /\ uptime = 9000 /\ uptime < MillisMod
    /\ pump.pumpState /\ pump.pumpLastOnAt = 9000 /\ pump.pumpLastOffAt = 6000
    /\ pump.lastPumpDuration = 3000

====
